---------------------------- MODULE Spec2Model ----------------------------
(***************************************************************************)
(* Coderr marketplace backend (Django / Django REST framework).            *)
(*                                                                         *)
(* The model is a state machine over the relational store: every action    *)
(* is one HTTP request handled to completion (permission checks, object    *)
(* lookup, serializer validation, serializer create/update) and records    *)
(* the request and its response in `last`.                                 *)
(*                                                                         *)
(* The store runs in Django's default autocommit mode: a statement that    *)
(* has been executed stays written when a later statement of the same      *)
(* request raises, unless the code opens transaction.atomic (only          *)
(* RegistrationSerializer.create does).                                    *)
(*                                                                         *)
(* Prices are DecimalField(max_digits=10, decimal_places=2) values and     *)
(* are modelled as integer cents (1000 is 10.00).                          *)
(***************************************************************************)
EXTENDS Integers, Sequences, FiniteSets, TLC

(***************************************************************************)
(* Bounds of the model.                                                    *)
(***************************************************************************)
\* number of offer headers ever inserted (Offer ids are never reused)
MaxOffers == 2
\* number of PATCH / PUT requests on offers that reach serializer.save()
MaxUpdates == 1
\* number of orders ever inserted (Order ids are never reused)
MaxOrders == 2
\* number of reviews ever inserted (Review ids are never reused)
MaxReviews == 2
\* number of requests that are between is_valid() and save() at one time
MaxInflight == 2
\* number of users ever registered (User ids are never reused)
MaxRegistrations == 2

VARIABLES
    profiles,      \* Profile table: user id -> user_type (users without a row have no profile)
    offers,        \* Offer table: id -> [user, title, description, image]
    details,       \* OfferDetail table: id -> [offer, title, revisions, price, delivery_time, features, offer_type]
    nextOfferId,   \* AUTOINCREMENT counter of the Offer table
    nextDetailId,  \* AUTOINCREMENT counter of the OfferDetail table
    updates,       \* number of offer updates that reached serializer.save()
    orders,        \* Order table: id -> [customer_user, business_user, title, revisions,
                   \*   delivery_time_in_days, price, features, offer_type, status]
    nextOrderId,   \* AUTOINCREMENT counter of the Order table
    users,         \* User table: id -> [username, email, first_name, last_name]
    nextUserId,    \* AUTOINCREMENT counter of the User table
    tokens,        \* Token table: the ids of the users that hold a token
    profile_fields,\* Profile table, the editable columns: user id ->
                   \*   [file, location, tel, description, working_hours]
    reviews,       \* Review table: id -> [business_user, reviewer, rating, description]
    nextReviewId,  \* AUTOINCREMENT counter of the Review table
    inflight,      \* requests that passed is_valid() and have not reached save() yet
    last           \* the last request and its response

vars == <<profiles, offers, details, nextOfferId, nextDetailId, updates,
          orders, nextOrderId, users, nextUserId, tokens, profile_fields,
          reviews, nextReviewId, inflight, last>>

(***************************************************************************)
(* Users.  0 is the AnonymousUser of an unauthenticated request.  Users 1  *)
(* and 2 registered as business, user 3 as customer; user 4 is an account  *)
(* without Profile row (created outside the registration endpoint).        *)
(***************************************************************************)
Anonymous == 0
Users == {1, 2, 3, 4}
Callers == {Anonymous} \cup Users

\* the users with is_staff set: the account created outside the
\* registration endpoint is an administrator
Staff == {4}

TYPE_CHOICES == {"customer", "business"}
OFFER_TYPE_CHOICES == {"basic", "standard", "premium"}

NoError == [kind |-> "none"]
Err(k) == [kind |-> k]
ErrType(k, t) == [kind |-> k, offer_type |-> t]
ErrId(k, i) == [kind |-> k, id |-> i]

(***************************************************************************)
(* Permissions (rest_framework.permissions and coderr_app.api.permissions) *)
(***************************************************************************)
IsAuthenticated(u) == u \in Users

\* hasattr(u, "profile")
HasProfile(u) == u \in DOMAIN profiles

\* a permission that asks for a profile of any type
IsBusinessUser_AnyProfile(method, u) ==
    IF method # "POST" THEN TRUE
    ELSE IsAuthenticated(u) /\ HasProfile(u)

\* IsBusinessUser.has_permission
IsBusinessUser(method, u) ==
    IF method # "POST" THEN TRUE
    ELSE IsAuthenticated(u) /\ HasProfile(u) /\ profiles[u] = "business"

\* exceptions.NotAuthenticated: the response of an unauthenticated request
\* under token authentication (rest_framework.authtoken issues the tokens)
NotAuthenticated(req) ==
    [op |-> req.op, caller |-> req.caller, target |-> req.target,
     payload |-> req.payload, status |-> 401,
     error |-> [kind |-> "not_authenticated"], body |-> <<>>]

(***************************************************************************)
(* Offer creation: OfferDetailCreateSerializer / OfferCreateSerializer     *)
(***************************************************************************)
\* field validation of one entry of `details`
\*   offer_type: ChoiceField over OfferDetail.OFFER_TYPE_CHOICES
\*   revisions:  PositiveIntegerField of the model, min_value 0
\*   delivery_time_in_days: declared IntegerField(source="delivery_time"),
\*                          no minimum
\*   features:   optional list of strings
OfferDetailCreateSerializer_is_valid(d) ==
    /\ {"title", "revisions", "delivery_time_in_days", "price", "offer_type"} \subseteq DOMAIN d
    /\ d.offer_type \in OFFER_TYPE_CHOICES
    /\ d.revisions >= 0

\* a minimum of two details instead of three
validate_details_MinTwo(value) == ~(Len(value) < 2)

\* OfferCreateSerializer.validate_details
validate_details(value) == ~(Len(value) < 3)

\* OfferDetail(offer=offer, **d): delivery_time_in_days is stored in
\* delivery_time, features defaults to the empty list
OfferDetailRow(offer, d) ==
    [offer |-> offer,
     title |-> d.title,
     revisions |-> d.revisions,
     price |-> d.price,
     delivery_time |-> d.delivery_time_in_days,
     features |-> IF "features" \in DOMAIN d THEN d.features ELSE <<>>,
     offer_type |-> d.offer_type]

\* CHECK ("delivery_time" >= 0) and CHECK ("revisions" >= 0) of the
\* PositiveIntegerField columns
OfferDetailCheckConstraints(row) ==
    row.delivery_time >= 0 /\ row.revisions >= 0

\* Offer.objects.create(user=user, **validated_data)
OfferRow(user, data) ==
    [user |-> user,
     title |-> data.title,
     description |-> IF "description" \in DOMAIN data THEN data.description ELSE "",
     image |-> IF "image" \in DOMAIN data /\ data.image # "" THEN data.image ELSE "null"]

\* OfferDetail.objects.bulk_create: one INSERT of all rows; a row that
\* violates a CHECK constraint raises IntegrityError and no row is written
bulk_create(dets, firstId, offer, details_data) ==
    LET rows == [k \in 1..Len(details_data) |-> OfferDetailRow(offer, details_data[k])]
        ok   == \A k \in 1..Len(rows) : OfferDetailCheckConstraints(rows[k])
        ids  == firstId .. (firstId + Len(rows) - 1)
    IN  IF ok
        THEN [ok |-> TRUE,
              details |-> [i \in (DOMAIN dets) \cup ids |->
                              IF i \in ids THEN rows[i - firstId + 1] ELSE dets[i]],
              nextId |-> firstId + Len(rows)]
        ELSE [ok |-> FALSE, details |-> dets, nextId |-> firstId]

Request(op, caller, target, payload) ==
    [op |-> op, caller |-> caller, target |-> target, payload |-> payload]

Response(req, status, error, body) ==
    [op |-> req.op, caller |-> req.caller, target |-> req.target,
     payload |-> req.payload, status |-> status, error |-> error, body |-> body]

NoBody == <<>>

Unchanged_db ==
    UNCHANGED <<users, nextUserId, tokens, profile_fields, reviews, nextReviewId,
                       inflight, profiles, offers, details, nextOfferId, nextDetailId, updates, orders, nextOrderId>>

\* POST /api/offers/   (OfferListCreateView + OfferCreateSerializer)
OfferListCreateView_post(c, data) ==
    LET req == Request("POST offers", c, 0, data) IN
    /\ nextOfferId <= MaxOffers
    /\ IF ~IsAuthenticated(c)
       THEN /\ last' = NotAuthenticated(req)
            /\ Unchanged_db
       ELSE IF ~IsBusinessUser("POST", c)
       THEN /\ last' = Response(req, 403, Err("permission_denied"), NoBody)
            /\ Unchanged_db
       ELSE IF ~(\A k \in 1..Len(data.details) : OfferDetailCreateSerializer_is_valid(data.details[k]))
       THEN /\ last' = Response(req, 400, Err("invalid_detail"), NoBody)
            /\ Unchanged_db
       ELSE IF ~validate_details(data.details)
       THEN /\ last' = Response(req, 400, Err("min_3_details"), NoBody)
            /\ Unchanged_db
       ELSE \* OfferCreateSerializer.create
            LET id == nextOfferId
                r  == bulk_create(details, nextDetailId, id, data.details)
            IN  /\ offers' = [o \in (DOMAIN offers) \cup {id} |->
                                 IF o = id THEN OfferRow(c, data) ELSE offers[o]]
                /\ nextOfferId' = id + 1
                /\ details' = r.details
                /\ nextDetailId' = r.nextId
                /\ last' = IF r.ok
                           THEN Response(req, 201, NoError, [id |-> id])
                           ELSE Response(req, 500, Err("integrity_error"), NoBody)
                /\ UNCHANGED <<users, nextUserId, tokens, profile_fields, reviews, nextReviewId,
                       inflight, profiles, updates, orders, nextOrderId>>

(***************************************************************************)
(* Offer update: OfferDetailPatchSerializer / OfferUpdateSerializer        *)
(***************************************************************************)
change_fields == {"title", "revisions", "delivery_time_in_days", "price", "features"}

\* OfferDetailPatchSerializer: field validation and validate()
OfferDetailPatchSerializer_is_valid(d) ==
    /\ "offer_type" \in DOMAIN d
    /\ d.offer_type \in OFFER_TYPE_CHOICES
    /\ ("revisions" \in DOMAIN d => d.revisions >= 0)
    /\ ("delivery_time_in_days" \in DOMAIN d => d.delivery_time_in_days >= 0)
    /\ (DOMAIN d) \cap change_fields # {}

\* OfferUpdateSerializer.is_valid (partial=True): title may not be blank
OfferUpdateSerializer_is_valid(data) ==
    /\ ("title" \in DOMAIN data => data.title # "")
    /\ ("details" \in DOMAIN data =>
           \A k \in 1..Len(data.details) : OfferDetailPatchSerializer_is_valid(data.details[k]))

\* the scalar fields of the offer header: setattr for the keys present
SetOfferFields(row, data) ==
    [row EXCEPT
       !.title = IF "title" \in DOMAIN data THEN data.title ELSE @,
       !.description = IF "description" \in DOMAIN data THEN data.description ELSE @,
       !.image = IF "image" \in DOMAIN data THEN data.image ELSE @]

\* a lookup by id that does not filter by the offer
ResolveDetail_AnyOffer(dets, instance, d) ==
    IF "id" \in DOMAIN d
    THEN IF d.id \in DOMAIN dets
         THEN [error |-> NoError, id |-> d.id]
         ELSE [error |-> ErrId("not_found_for_offer", d.id), id |-> 0]
    ELSE LET qs == {i \in DOMAIN dets :
                        dets[i].offer = instance /\ dets[i].offer_type = d.offer_type}
             count == Cardinality(qs)
         IN  IF count = 0
             THEN [error |-> ErrType("no_detail_with_offer_type", d.offer_type), id |-> 0]
             ELSE IF count > 1
             THEN [error |-> ErrType("multiple_details_with_offer_type", d.offer_type), id |-> 0]
             ELSE [error |-> NoError, id |-> CHOOSE i \in qs : TRUE]

\* a lookup by offer_type that takes the first match without counting
ResolveDetail_FirstMatch(dets, instance, d) ==
    IF "id" \in DOMAIN d
    THEN IF d.id \in DOMAIN dets /\ dets[d.id].offer = instance
         THEN [error |-> NoError, id |-> d.id]
         ELSE [error |-> ErrId("not_found_for_offer", d.id), id |-> 0]
    ELSE LET qs == {i \in DOMAIN dets :
                        dets[i].offer = instance /\ dets[i].offer_type = d.offer_type}
         IN  IF qs = {}
             THEN [error |-> ErrType("no_detail_with_offer_type", d.offer_type), id |-> 0]
             ELSE [error |-> NoError, id |-> CHOOSE i \in qs : \A j \in qs : i <= j]

\* identification of the target of one entry (offers.py 257-278)
ResolveDetail(dets, instance, d) ==
    IF "id" \in DOMAIN d
    THEN IF d.id \in DOMAIN dets /\ dets[d.id].offer = instance
         THEN [error |-> NoError, id |-> d.id]
         ELSE [error |-> ErrId("not_found_for_offer", d.id), id |-> 0]
    ELSE LET qs == {i \in DOMAIN dets :
                        dets[i].offer = instance /\ dets[i].offer_type = d.offer_type}
             count == Cardinality(qs)
         IN  IF count = 0
             THEN [error |-> ErrType("no_detail_with_offer_type", d.offer_type), id |-> 0]
             ELSE IF count > 1
             THEN [error |-> ErrType("multiple_details_with_offer_type", d.offer_type), id |-> 0]
             ELSE [error |-> NoError, id |-> CHOOSE i \in qs : TRUE]

\* assignments that also copy the offer_type of the entry
SetDetailFields_WithOfferType(row, d) ==
    [row EXCEPT
       !.title = IF "title" \in DOMAIN d THEN d.title ELSE @,
       !.revisions = IF "revisions" \in DOMAIN d THEN d.revisions ELSE @,
       !.delivery_time = IF "delivery_time_in_days" \in DOMAIN d THEN d.delivery_time_in_days ELSE @,
       !.price = IF "price" \in DOMAIN d THEN d.price ELSE @,
       !.features = IF "features" \in DOMAIN d THEN d.features ELSE @,
       !.offer_type = d.offer_type]

\* assignments that reset the features of an entry that has none
SetDetailFields_ResetFeatures(row, d) ==
    [row EXCEPT
       !.title = IF "title" \in DOMAIN d THEN d.title ELSE @,
       !.revisions = IF "revisions" \in DOMAIN d THEN d.revisions ELSE @,
       !.delivery_time = IF "delivery_time_in_days" \in DOMAIN d THEN d.delivery_time_in_days ELSE @,
       !.price = IF "price" \in DOMAIN d THEN d.price ELSE @,
       !.features = IF "features" \in DOMAIN d THEN d.features ELSE <<>>]

\* the assignments guarded by `"<field>" in d` (offers.py 280-291)
SetDetailFields(row, d) ==
    [row EXCEPT
       !.title = IF "title" \in DOMAIN d THEN d.title ELSE @,
       !.revisions = IF "revisions" \in DOMAIN d THEN d.revisions ELSE @,
       !.delivery_time = IF "delivery_time_in_days" \in DOMAIN d THEN d.delivery_time_in_days ELSE @,
       !.price = IF "price" \in DOMAIN d THEN d.price ELSE @,
       !.features = IF "features" \in DOMAIN d THEN d.features ELSE @]

\* the loop over details_payload: every detail_obj.save() is committed on
\* its own, a ValidationError leaves the earlier saves in place
RECURSIVE UpdateDetails(_, _, _, _)
UpdateDetails(dets, instance, details_payload, k) ==
    IF k > Len(details_payload)
    THEN [error |-> NoError, details |-> dets]
    ELSE LET d == details_payload[k]
             r == ResolveDetail(dets, instance, d)
         IN  IF r.error # NoError
             THEN [error |-> r.error, details |-> dets]
             ELSE UpdateDetails([dets EXCEPT ![r.id] = SetDetailFields(@, d)],
                                instance, details_payload, k + 1)

\* OfferUpdateSerializer.update
OfferUpdateSerializer_update(dets, instance, validated_data) ==
    UpdateDetails(dets, instance,
                  IF "details" \in DOMAIN validated_data THEN validated_data.details ELSE <<>>,
                  1)

\* PATCH /api/offers/{id}/   (OfferDetailView.patch)
OfferDetailView_patch(c, id, data) ==
    LET req == Request("PATCH offer", c, id, data) IN
    /\ updates < MaxUpdates
    /\ IF ~IsAuthenticated(c)
       THEN /\ last' = NotAuthenticated(req)
            /\ Unchanged_db
       ELSE IF id \notin DOMAIN offers
       THEN /\ last' = Response(req, 404, Err("not_found"), NoBody)
            /\ Unchanged_db
       ELSE IF c # offers[id].user
       THEN /\ last' = Response(req, 403, Err("permission_denied"), NoBody)
            /\ Unchanged_db
       ELSE IF ~OfferUpdateSerializer_is_valid(data)
       THEN /\ last' = Response(req, 400, Err("invalid"), NoBody)
            /\ Unchanged_db
       ELSE LET r == OfferUpdateSerializer_update(details, id, data) IN
            /\ offers' = [offers EXCEPT ![id] = SetOfferFields(@, data)]
            /\ details' = r.details
            /\ updates' = updates + 1
            /\ last' = IF r.error = NoError
                       THEN Response(req, 200, NoError, NoBody)
                       ELSE Response(req, 400, r.error, NoBody)
            /\ UNCHANGED <<users, nextUserId, tokens, profile_fields, reviews, nextReviewId,
                       inflight, profiles, nextOfferId, nextDetailId, orders, nextOrderId>>

\* OfferRetrieveSerializer as the serializer of PUT: title is the only
\* required writable field; image and description are optional
OfferRetrieveSerializer_is_valid(data) ==
    "title" \in DOMAIN data /\ data.title # ""

\* PUT /api/offers/{id}/   (UpdateModelMixin.update; OfferDetailView defines
\* no put, get_serializer_class returns OfferRetrieveSerializer)
OfferDetailView_put(c, id, data) ==
    LET req == Request("PUT offer", c, id, data) IN
    /\ updates < MaxUpdates
    /\ IF ~IsAuthenticated(c)
       THEN /\ last' = NotAuthenticated(req)
            /\ Unchanged_db
       ELSE IF id \notin DOMAIN offers
       THEN /\ last' = Response(req, 404, Err("not_found"), NoBody)
            /\ Unchanged_db
       ELSE IF ~OfferRetrieveSerializer_is_valid(data)
       THEN /\ last' = Response(req, 400, Err("invalid"), NoBody)
            /\ Unchanged_db
       ELSE /\ offers' = [offers EXCEPT ![id] = SetOfferFields(@, data)]
            /\ updates' = updates + 1
            /\ last' = Response(req, 200, NoError, NoBody)
            /\ UNCHANGED <<users, nextUserId, tokens, profile_fields, reviews, nextReviewId,
                       inflight, profiles, details, nextOfferId, nextDetailId, orders, nextOrderId>>

\* a cascade that takes the orders of the offer's owner along
CollectOrders_OfOwner(ords, offs, id) ==
    {o \in DOMAIN ords : ords[o].business_user = offs[id].user}

\* the orders that the deletion of an offer cascades to: Order holds no
\* foreign key to Offer or OfferDetail
CollectOrders(ords, offs, id) == {}

\* DELETE /api/offers/{id}/   (OfferDetailView.delete); OfferDetail.offer is
\* on_delete=CASCADE
OfferDetailView_delete(c, id) ==
    LET req == Request("DELETE offer", c, id, <<>>) IN
    IF ~IsAuthenticated(c)
    THEN /\ last' = NotAuthenticated(req)
         /\ Unchanged_db
    ELSE IF id \notin DOMAIN offers
    THEN /\ last' = Response(req, 404, Err("not_found"), NoBody)
         /\ Unchanged_db
    ELSE IF c # offers[id].user
    THEN /\ last' = Response(req, 403, Err("permission_denied"), NoBody)
         /\ Unchanged_db
    ELSE /\ offers' = [o \in (DOMAIN offers) \ {id} |-> offers[o]]
         /\ details' = [i \in {j \in DOMAIN details : details[j].offer # id} |-> details[i]]
         /\ orders' = [o \in (DOMAIN orders) \ CollectOrders(orders, offers, id) |-> orders[o]]
         /\ last' = Response(req, 204, NoError, NoBody)
         /\ UNCHANGED <<users, nextUserId, tokens, profile_fields, reviews, nextReviewId,
                       inflight, profiles, nextOfferId, nextDetailId, updates, nextOrderId>>

(***************************************************************************)
(* Reading offers: the annotated querysets                                 *)
(***************************************************************************)
\* django.db.models.Min: SQL MIN over the joined rows, NULL (here <<>>)
\* when there is no row
RECURSIVE MinAcc(_, _)
MinAcc(S, acc) ==
    IF S = {} THEN acc
    ELSE LET x == CHOOSE y \in S : TRUE
         IN  MinAcc(S \ {x}, IF acc = <<>> THEN <<x>>
                              ELSE IF x < acc[1] THEN <<x>> ELSE acc)

Min(S) == MinAcc(S, <<>>)

DetailsOf(dets, id) == {i \in DOMAIN dets : dets[i].offer = id}

\* an annotation that aggregates over the details of all offers
annotate_AllOffers(dets, id) ==
    [id |-> id,
     details |-> DetailsOf(dets, id),
     min_price |-> Min({dets[i].price : i \in DOMAIN dets}),
     min_delivery_time |-> Min({dets[i].delivery_time : i \in DOMAIN dets})]

\* .annotate(min_price=Min("details__price"),
\*           min_delivery_time=Min("details__delivery_time"))
annotate(dets, id) ==
    [id |-> id,
     details |-> DetailsOf(dets, id),
     min_price |-> Min({dets[i].price : i \in DetailsOf(dets, id)}),
     min_delivery_time |-> Min({dets[i].delivery_time : i \in DetailsOf(dets, id)})]

\* GET /api/offers/{id}/   (OfferDetailView, OfferRetrieveSerializer)
OfferDetailView_get(c, id) ==
    LET req == Request("GET offer", c, id, <<>>) IN
    /\ IF ~IsAuthenticated(c)
       THEN last' = NotAuthenticated(req)
       ELSE IF id \notin DOMAIN offers
       THEN last' = Response(req, 404, Err("not_found"), NoBody)
       ELSE last' = Response(req, 200, NoError, annotate(details, id))
    /\ Unchanged_db

\* GET /api/offers/   (OfferListCreateView, OfferListSerializer): no
\* permission class applies to GET
OfferListCreateView_get(c) ==
    LET req == Request("GET offers", c, 0, <<>>) IN
    /\ last' = Response(req, 200, NoError, [o \in DOMAIN offers |-> annotate(details, o)])
    /\ Unchanged_db

(***************************************************************************)
(* Orders: OrderCreateSerializer, OrderListCreateView                      *)
(***************************************************************************)
STATUS_CHOICES == {"pending", "in_progress", "completed", "cancelled"}

\* a staff test that business users pass as well
is_staff_OrBusiness(u) == u \in Staff \/ (HasProfile(u) /\ profiles[u] = "business")

\* request.user.is_staff
is_staff(u) == u \in Staff

\* a permission that asks for a profile of any type
IsCustomerUser_AnyProfile(method, u) ==
    IF method # "POST" THEN TRUE
    ELSE IsAuthenticated(u) /\ HasProfile(u)

\* IsCustomerUser.has_permission
IsCustomerUser(method, u) ==
    IF method # "POST" THEN TRUE
    ELSE IsAuthenticated(u) /\ HasProfile(u) /\ profiles[u] = "customer"

\* OrderCreateSerializer.validate_offer_detail_id
validate_offer_detail_id(dets, value) == value \in DOMAIN dets

\* an order that takes its title from the offer header
OrderCreateSerializer_create_OfferTitle(customer, offs, dets, offer_detail_id) ==
    LET detail == dets[offer_detail_id] IN
    [customer_user |-> customer,
     business_user |-> offs[detail.offer].user,
     title |-> offs[detail.offer].title,
     revisions |-> detail.revisions,
     delivery_time_in_days |-> detail.delivery_time,
     price |-> detail.price,
     features |-> detail.features,
     offer_type |-> detail.offer_type,
     status |-> "in_progress"]

\* OrderCreateSerializer.create: the row of Order.objects.create; status
\* takes the default of the column
OrderCreateSerializer_create(customer, offs, dets, offer_detail_id) ==
    LET detail   == dets[offer_detail_id]
        business == offs[detail.offer].user
    IN  [customer_user |-> customer,
         business_user |-> business,
         title |-> detail.title,
         revisions |-> detail.revisions,
         delivery_time_in_days |-> detail.delivery_time,
         price |-> detail.price,
         features |-> IF detail.features = <<>> THEN <<>> ELSE detail.features,
         offer_type |-> detail.offer_type,
         status |-> "in_progress"]

\* OrderListSerializer(order).data
OrderListSerializer_data(ords, id) == [id |-> id] @@ ords[id]

\* POST /api/orders/   (OrderListCreateView.create + OrderCreateSerializer)
OrderListCreateView_post(c, data) ==
    LET req == Request("POST orders", c, 0, data) IN
    /\ nextOrderId <= MaxOrders
    /\ IF ~IsAuthenticated(c)
       THEN /\ last' = NotAuthenticated(req)
            /\ Unchanged_db
       ELSE IF ~IsCustomerUser("POST", c)
       THEN /\ last' = Response(req, 403, Err("permission_denied"), NoBody)
            /\ Unchanged_db
       ELSE IF "offer_detail_id" \notin DOMAIN data
       THEN /\ last' = Response(req, 400, Err("required"), NoBody)
            /\ Unchanged_db
       ELSE IF ~validate_offer_detail_id(details, data.offer_detail_id)
       THEN /\ last' = Response(req, 400, Err("offer_detail_not_found"), NoBody)
            /\ Unchanged_db
       ELSE LET id  == nextOrderId
                new == [o \in (DOMAIN orders) \cup {id} |->
                           IF o = id
                           THEN OrderCreateSerializer_create(c, offers, details, data.offer_detail_id)
                           ELSE orders[o]]
            IN  /\ orders' = new
                /\ nextOrderId' = id + 1
                /\ last' = Response(req, 201, NoError, OrderListSerializer_data(new, id))
                /\ UNCHANGED <<users, nextUserId, tokens, profile_fields, reviews, nextReviewId,
                       inflight, profiles, offers, details, nextOfferId, nextDetailId, updates>>

\* query parameters are strings, modelled as sequences of characters;
\* the absent parameter and the empty string are both the empty sequence
Digits == {"0", "1", "2", "3", "4", "5", "6", "7", "8", "9"}

\* str.isdigit
isdigit(str) == Len(str) > 0 /\ \A k \in 1..Len(str) : str[k] \in Digits

DigitValue(ch) ==
    CASE ch = "0" -> 0 [] ch = "1" -> 1 [] ch = "2" -> 2 [] ch = "3" -> 3 [] ch = "4" -> 4
      [] ch = "5" -> 5 [] ch = "6" -> 6 [] ch = "7" -> 7 [] ch = "8" -> 8 [] ch = "9" -> 9

\* int(str) of a string of digits
RECURSIVE int(_)
int(str) ==
    IF Len(str) = 0 THEN 0
    ELSE 10 * int(SubSeq(str, 1, Len(str) - 1)) + DigitValue(str[Len(str)])

\* a queryset that skips the party filter whenever a numeric user filter is given
OrderListCreateView_get_queryset_AnyUserFilter(ords, u, business_user_id, customer_user_id, status_param) ==
    LET qs1 == IF business_user_id # <<>>
               THEN {o \in DOMAIN ords : ords[o].business_user = int(business_user_id)}
               ELSE DOMAIN ords
        qs2 == IF customer_user_id # <<>>
               THEN {o \in qs1 : ords[o].customer_user = int(customer_user_id)}
               ELSE qs1
        qs3 == IF status_param # ""
               THEN {o \in qs2 : ords[o].status = status_param}
               ELSE qs2
    IN  IF ~is_staff(u)
        THEN IF business_user_id # <<>> /\ isdigit(business_user_id)
             THEN qs3
             ELSE IF customer_user_id # <<>> /\ isdigit(customer_user_id)
             THEN qs3
             ELSE {o \in qs3 : ords[o].customer_user = u \/ ords[o].business_user = u}
        ELSE qs3

\* OrderListCreateView.get_queryset, for numeric user filters
OrderListCreateView_get_queryset(ords, u, business_user_id, customer_user_id, status_param) ==
    LET qs1 == IF business_user_id # <<>>
               THEN {o \in DOMAIN ords : ords[o].business_user = int(business_user_id)}
               ELSE DOMAIN ords
        qs2 == IF customer_user_id # <<>>
               THEN {o \in qs1 : ords[o].customer_user = int(customer_user_id)}
               ELSE qs1
        qs3 == IF status_param # ""
               THEN {o \in qs2 : ords[o].status = status_param}
               ELSE qs2
    IN  IF ~is_staff(u)
        THEN IF business_user_id # <<>> /\ isdigit(business_user_id) /\ int(business_user_id) = u
             THEN qs3
             ELSE IF customer_user_id # <<>> /\ isdigit(customer_user_id) /\ int(customer_user_id) = u
             THEN qs3
             ELSE {o \in qs3 : ords[o].customer_user = u \/ ords[o].business_user = u}
        ELSE qs3

\* GET /api/orders/   (OrderListCreateView.list): a user filter that is no
\* number makes the lookup raise ValueError
OrderListCreateView_get(c, params) ==
    LET req == Request("GET orders", c, 0, params) IN
    /\ IF ~IsAuthenticated(c)
       THEN last' = NotAuthenticated(req)
       ELSE IF \/ (params.business_user_id # <<>> /\ ~isdigit(params.business_user_id))
               \/ (params.customer_user_id # <<>> /\ ~isdigit(params.customer_user_id))
       THEN last' = Response(req, 500, Err("value_error"), NoBody)
       ELSE LET qs == OrderListCreateView_get_queryset(orders, c, params.business_user_id,
                                                       params.customer_user_id, params.status)
            IN  last' = Response(req, 200, NoError, [o \in qs |-> OrderListSerializer_data(orders, o)])
    /\ Unchanged_db

(***************************************************************************)
(* Orders: OrderDetailView, OrderStatusUpdateSerializer                    *)
(***************************************************************************)
\* OrderDetailView.get_queryset: the third disjunct, Q(id__isnull=False),
\* holds of every row
OrderDetailView_get_queryset(ords, u) ==
    {o \in DOMAIN ords : \/ ords[o].customer_user = u
                         \/ ords[o].business_user = u
                         \/ o \in DOMAIN ords}

\* GET /api/orders/{id}/   (RetrieveModelMixin.retrieve, OrderListSerializer)
OrderDetailView_get(c, id) ==
    LET req == Request("GET order", c, id, <<>>) IN
    /\ IF ~IsAuthenticated(c)
       THEN last' = NotAuthenticated(req)
       ELSE IF id \notin OrderDetailView_get_queryset(orders, c)
       THEN last' = Response(req, 404, Err("not_found"), NoBody)
       ELSE last' = Response(req, 200, NoError, OrderListSerializer_data(orders, id))
    /\ Unchanged_db

\* the field `status` of the ModelSerializer: a ChoiceField over
\* Order.STATUS_CHOICES, not enforced as required under partial=True
OrderStatusUpdateSerializer_fields_valid(data) ==
    "status" \in DOMAIN data => data.status \in STATUS_CHOICES

\* a validate() that does not look at the other keys of the payload
OrderStatusUpdateSerializer_validate_IgnoreExtra(instance, data) ==
    IF "status" \notin DOMAIN data \/ data.status \notin STATUS_CHOICES
    THEN Err("invalid_status")
    ELSE NoError

\* a validate() that lets a payload without status pass
OrderStatusUpdateSerializer_validate_StatusOptional(instance, data) ==
    IF (DOMAIN data) \ {"status"} # {}
    THEN Err("only_status")
    ELSE NoError

\* a validate() that keeps completed and cancelled orders as they are
OrderStatusUpdateSerializer_validate_Terminal(instance, data) ==
    IF (DOMAIN data) \ {"status"} # {}
    THEN Err("only_status")
    ELSE IF "status" \notin DOMAIN data \/ data.status \notin STATUS_CHOICES
    THEN Err("invalid_status")
    ELSE IF instance.status \in {"completed", "cancelled"}
    THEN Err("invalid_status")
    ELSE NoError

\* OrderStatusUpdateSerializer.validate: initial_data is the payload, attrs
\* holds status when the payload has it (instance is self.instance)
OrderStatusUpdateSerializer_validate(instance, data) ==
    IF (DOMAIN data) \ {"status"} # {}
    THEN Err("only_status")
    ELSE IF "status" \notin DOMAIN data \/ data.status \notin STATUS_CHOICES
    THEN Err("invalid_status")
    ELSE NoError

\* PATCH /api/orders/{id}/   (OrderDetailView.patch, then
\* UpdateModelMixin.partial_update with OrderStatusUpdateSerializer)
OrderDetailView_patch(c, id, data) ==
    LET req == Request("PATCH order", c, id, data) IN
    IF ~IsAuthenticated(c)
    THEN /\ last' = NotAuthenticated(req)
         /\ Unchanged_db
    ELSE IF id \notin OrderDetailView_get_queryset(orders, c)
    THEN /\ last' = Response(req, 404, Err("not_found"), NoBody)
         /\ Unchanged_db
    ELSE IF ~(HasProfile(c) /\ profiles[c] = "business" /\ c = orders[id].business_user)
    THEN /\ last' = Response(req, 403, Err("permission_denied"), NoBody)
         /\ Unchanged_db
    ELSE IF ~OrderStatusUpdateSerializer_fields_valid(data)
    THEN /\ last' = Response(req, 400, Err("invalid_choice"), NoBody)
         /\ Unchanged_db
    ELSE IF OrderStatusUpdateSerializer_validate(orders[id], data) # NoError
    THEN /\ last' = Response(req, 400, OrderStatusUpdateSerializer_validate(orders[id], data), NoBody)
         /\ Unchanged_db
    ELSE LET new == [orders EXCEPT ![id].status =
                        IF "status" \in DOMAIN data THEN data.status ELSE @]
         IN  /\ orders' = new
             /\ last' = Response(req, 200, NoError, [status |-> new[id].status])
             /\ UNCHANGED <<users, nextUserId, tokens, profile_fields, reviews, nextReviewId,
                       inflight, profiles, offers, details, nextOfferId, nextDetailId, updates, nextOrderId>>

\* OrderListSerializer.is_valid of a full update: the columns without
\* default are required, the users are primary keys of existing accounts,
\* status is a ChoiceField over Order.STATUS_CHOICES
OrderListSerializer_is_valid(data) ==
    /\ {"customer_user", "business_user", "title", "revisions",
        "delivery_time_in_days", "price", "offer_type"} \subseteq DOMAIN data
    /\ data.customer_user \in Users
    /\ data.business_user \in Users
    /\ data.title # ""
    /\ data.revisions >= 0
    /\ data.delivery_time_in_days >= 0
    /\ ("status" \in DOMAIN data => data.status \in STATUS_CHOICES)

\* ModelSerializer.update: setattr for every validated field
OrderListSerializer_update(row, data) ==
    [f \in DOMAIN row |-> IF f \in DOMAIN data THEN data[f] ELSE row[f]]

\* PUT /api/orders/{id}/   (UpdateModelMixin.update with OrderListSerializer;
\* OrderDetailView does not override put)
OrderDetailView_put(c, id, data) ==
    LET req == Request("PUT order", c, id, data) IN
    IF ~IsAuthenticated(c)
    THEN /\ last' = NotAuthenticated(req)
         /\ Unchanged_db
    ELSE IF id \notin OrderDetailView_get_queryset(orders, c)
    THEN /\ last' = Response(req, 404, Err("not_found"), NoBody)
         /\ Unchanged_db
    ELSE IF ~OrderListSerializer_is_valid(data)
    THEN /\ last' = Response(req, 400, Err("invalid"), NoBody)
         /\ Unchanged_db
    ELSE LET new == [orders EXCEPT ![id] = OrderListSerializer_update(@, data)]
         IN  /\ orders' = new
             /\ last' = Response(req, 200, NoError, OrderListSerializer_data(new, id))
             /\ UNCHANGED <<users, nextUserId, tokens, profile_fields, reviews, nextReviewId,
                       inflight, profiles, offers, details, nextOfferId, nextDetailId, updates, nextOrderId>>

\* DELETE /api/orders/{id}/   (OrderDetailView.delete): the staff test
\* comes before the lookup
OrderDetailView_delete(c, id) ==
    LET req == Request("DELETE order", c, id, <<>>) IN
    IF ~IsAuthenticated(c)
    THEN /\ last' = NotAuthenticated(req)
         /\ Unchanged_db
    ELSE IF ~is_staff(c)
    THEN /\ last' = Response(req, 403, Err("permission_denied"), NoBody)
         /\ Unchanged_db
    ELSE IF id \notin OrderDetailView_get_queryset(orders, c)
    THEN /\ last' = Response(req, 404, Err("not_found"), NoBody)
         /\ Unchanged_db
    ELSE /\ orders' = [o \in (DOMAIN orders) \ {id} |-> orders[o]]
         /\ last' = Response(req, 204, NoError, NoBody)
         /\ UNCHANGED <<users, nextUserId, tokens, profile_fields, reviews, nextReviewId,
                       inflight, profiles, offers, details, nextOfferId, nextDetailId, updates, nextOrderId>>

(***************************************************************************)
(* Reviews: ReviewCreateSerializer, ReviewUpdateSerializer, ReviewViewSet  *)
(***************************************************************************)
\* validators=[MinValueValidator(1), MaxValueValidator(5)] of Review.rating
rating_is_valid(rating) == rating >= 1 /\ rating <= 5

\* the fields of ReviewCreateSerializer: business_user is the primary key
\* of an existing user, rating is required, description is optional
ReviewCreateSerializer_fields_valid(data) ==
    /\ {"business_user", "rating"} \subseteq DOMAIN data
    /\ data.business_user \in DOMAIN users
    /\ rating_is_valid(data.rating)

\* a check that accepts every user
validate_business_user_AnyUser(value) == TRUE

\* ReviewCreateSerializer.validate_business_user
validate_business_user(value) == HasProfile(value) /\ profiles[value] = "business"

\* ReviewCreateSerializer.validate
ReviewCreateSerializer_validate(revs, reviewer, attrs) ==
    IF attrs.business_user = reviewer
    THEN Err("cannot_review_yourself")
    ELSE IF \E r \in DOMAIN revs : /\ revs[r].business_user = attrs.business_user
                                  /\ revs[r].reviewer = reviewer
    THEN Err("already_reviewed")
    ELSE NoError

\* a Review table without constraint
UniqueConstraint_None(revs, row) == TRUE

\* UniqueConstraint(fields=["business_user", "reviewer"]) of Review.Meta:
\* the row may be inserted
UniqueConstraint(revs, row) ==
    ~\E r \in DOMAIN revs : /\ revs[r].business_user = row.business_user
                            /\ revs[r].reviewer = row.reviewer

\* ReviewCreateSerializer.create: the row of Review.objects.create
ReviewCreateSerializer_create(reviewer, attrs) ==
    [business_user |-> attrs.business_user,
     reviewer |-> reviewer,
     rating |-> attrs.rating,
     description |-> IF "description" \in DOMAIN attrs THEN attrs.description ELSE ""]

\* permissions and is_valid() of a creation: the error of the request, or
\* NoError when it goes on to perform_create
ReviewViewSet_create_rejection(c, data) ==
    IF ~IsAuthenticated(c) THEN Err("not_authenticated")
    ELSE IF ~IsCustomerUser("POST", c) THEN Err("permission_denied")
    ELSE IF ~ReviewCreateSerializer_fields_valid(data) THEN Err("invalid")
    ELSE IF ~validate_business_user(data.business_user) THEN Err("not_a_business_profile")
    ELSE ReviewCreateSerializer_validate(reviews, c, data)

StatusOf(error) ==
    CASE error.kind = "not_authenticated" -> 401
      [] error.kind = "permission_denied" -> 403
      [] error.kind = "not_found" -> 404
      [] error.kind = "integrity_error" -> 500
      [] OTHER -> 400

\* perform_create: serializer.save(reviewer=request.user); an insert that
\* violates the unique constraint raises IntegrityError, which nothing
\* catches
ReviewViewSet_perform_create(req) ==
    LET row == ReviewCreateSerializer_create(req.caller, req.payload)
        id  == nextReviewId
    IN  IF UniqueConstraint(reviews, row)
        THEN /\ reviews' = [r \in (DOMAIN reviews) \cup {id} |-> IF r = id THEN row ELSE reviews[r]]
             /\ nextReviewId' = id + 1
             /\ last' = Response(req, 201, NoError,
                                 [business_user |-> row.business_user, rating |-> row.rating,
                                  description |-> row.description])
        ELSE /\ last' = Response(req, 500, Err("integrity_error"), NoBody)
             /\ UNCHANGED <<reviews, nextReviewId>>

Unchanged_but_reviews ==
    UNCHANGED <<users, nextUserId, tokens, profile_fields, profiles, offers, details,
                nextOfferId, nextDetailId, updates, orders, nextOrderId>>

\* POST /api/reviews/   (ReviewViewSet.create), handled without another
\* request in between
ReviewViewSet_create(c, data) ==
    LET req == Request("POST reviews", c, 0, data)
        e   == ReviewViewSet_create_rejection(c, data)
    IN  /\ nextReviewId <= MaxReviews
        /\ IF e # NoError
           THEN /\ last' = Response(req, StatusOf(e), e, NoBody)
                /\ Unchanged_db
           ELSE /\ ReviewViewSet_perform_create(req)
                /\ Unchanged_but_reviews
                /\ UNCHANGED inflight

\* POST /api/reviews/ up to the end of is_valid(): a request that passes
\* waits for its save()
ReviewViewSet_create_is_valid(c, data) ==
    LET req == Request("POST reviews", c, 0, data)
        e   == ReviewViewSet_create_rejection(c, data)
    IN  /\ nextReviewId <= MaxReviews
        /\ Len(inflight) < MaxInflight
        /\ IF e # NoError
           THEN /\ last' = Response(req, StatusOf(e), e, NoBody)
                /\ Unchanged_db
           ELSE /\ inflight' = Append(inflight, req)
                /\ Unchanged_but_reviews
                /\ UNCHANGED <<reviews, nextReviewId, last>>

\* the sequence without its k-th element
Remove(seq, k) == [i \in 1..(Len(seq) - 1) |-> IF i < k THEN seq[i] ELSE seq[i + 1]]

\* POST /api/reviews/ from perform_create on, for a request that passed
\* is_valid() earlier
ReviewViewSet_create_save(k) ==
    /\ k \in 1..Len(inflight)
    /\ inflight[k].op = "POST reviews"
    /\ ReviewViewSet_perform_create(inflight[k])
    /\ inflight' = Remove(inflight, k)
    /\ Unchanged_but_reviews

\* ReviewListSerializer(review).data
ReviewListSerializer_data(revs, id) == [id |-> id] @@ revs[id]

\* GET /api/reviews/{id}/   (ReviewViewSet.retrieve, AllowAny)
ReviewViewSet_retrieve(c, id) ==
    LET req == Request("GET review", c, id, <<>>) IN
    /\ IF id \notin DOMAIN reviews
       THEN last' = Response(req, 404, Err("not_found"), NoBody)
       ELSE last' = Response(req, 200, NoError, ReviewListSerializer_data(reviews, id))
    /\ Unchanged_db

\* an owner test that the reviewed business user passes as well
is_reviewer_OrReviewed(u, review) == u = review.reviewer \/ u = review.business_user

\* request.user.id != review.reviewer_id of update, partial_update, destroy
is_reviewer(u, review) == u = review.reviewer

\* the fields of ReviewUpdateSerializer: rating is required unless the
\* update is partial, description is optional
ReviewUpdateSerializer_fields_valid(data, partial) ==
    /\ ~partial => "rating" \in DOMAIN data
    /\ "rating" \in DOMAIN data => rating_is_valid(data.rating)

\* a validate() that does not look at the other keys of the payload
ReviewUpdateSerializer_validate_IgnoreExtra(data) ==
    IF (DOMAIN data) \cap {"rating", "description"} = {}
    THEN Err("at_least_one")
    ELSE NoError

\* ReviewUpdateSerializer.validate: initial_data is the payload, attrs holds
\* the fields of the serializer that the payload carries
ReviewUpdateSerializer_validate(data) ==
    IF (DOMAIN data) \ {"rating", "description"} # {}
    THEN Err("only_rating_and_description")
    ELSE IF (DOMAIN data) \cap {"rating", "description"} = {}
    THEN Err("at_least_one")
    ELSE NoError

\* ReviewUpdateSerializer.update: setattr for the validated fields
ReviewUpdateSerializer_update(row, data) ==
    [row EXCEPT
       !.rating = IF "rating" \in DOMAIN data THEN data.rating ELSE @,
       !.description = IF "description" \in DOMAIN data THEN data.description ELSE @]

\* ReviewViewSet.update and ReviewViewSet.partial_update
ReviewViewSet_update_any(op, partial, c, id, data) ==
    LET req == Request(op, c, id, data) IN
    IF ~IsAuthenticated(c)
    THEN /\ last' = NotAuthenticated(req)
         /\ Unchanged_db
    ELSE IF id \notin DOMAIN reviews
    THEN /\ last' = Response(req, 404, Err("not_found"), NoBody)
         /\ Unchanged_db
    ELSE IF ~is_reviewer(c, reviews[id])
    THEN /\ last' = Response(req, 403, Err("permission_denied"), NoBody)
         /\ Unchanged_db
    ELSE IF ~ReviewUpdateSerializer_fields_valid(data, partial)
    THEN /\ last' = Response(req, 400, Err("invalid"), NoBody)
         /\ Unchanged_db
    ELSE IF ReviewUpdateSerializer_validate(data) # NoError
    THEN /\ last' = Response(req, 400, ReviewUpdateSerializer_validate(data), NoBody)
         /\ Unchanged_db
    ELSE LET new == [reviews EXCEPT ![id] = ReviewUpdateSerializer_update(@, data)]
         IN  /\ reviews' = new
             /\ last' = Response(req, 200, NoError,
                                 [rating |-> new[id].rating, description |-> new[id].description])
             /\ Unchanged_but_reviews
             /\ UNCHANGED <<nextReviewId, inflight>>

\* PUT /api/reviews/{id}/
ReviewViewSet_update(c, id, data) == ReviewViewSet_update_any("PUT review", FALSE, c, id, data)

\* PATCH /api/reviews/{id}/
ReviewViewSet_partial_update(c, id, data) == ReviewViewSet_update_any("PATCH review", TRUE, c, id, data)

\* DELETE /api/reviews/{id}/   (ReviewViewSet.destroy)
ReviewViewSet_destroy(c, id) ==
    LET req == Request("DELETE review", c, id, <<>>) IN
    IF ~IsAuthenticated(c)
    THEN /\ last' = NotAuthenticated(req)
         /\ Unchanged_db
    ELSE IF id \notin DOMAIN reviews
    THEN /\ last' = Response(req, 404, Err("not_found"), NoBody)
         /\ Unchanged_db
    ELSE IF ~is_reviewer(c, reviews[id])
    THEN /\ last' = Response(req, 403, Err("permission_denied"), NoBody)
         /\ Unchanged_db
    ELSE /\ reviews' = [r \in (DOMAIN reviews) \ {id} |-> reviews[r]]
         /\ last' = Response(req, 204, NoError, NoBody)
         /\ Unchanged_but_reviews
         /\ UNCHANGED <<nextReviewId, inflight>>

(***************************************************************************)
(* Inputs                                                                  *)
(***************************************************************************)
Detail(tier, price, days) ==
    [offer_type |-> tier, title |-> "t1", revisions |-> 1,
     delivery_time_in_days |-> days, price |-> price]

DetailF(tier, price, days) ==
    [offer_type |-> tier, title |-> "t1", revisions |-> 1,
     delivery_time_in_days |-> days, price |-> price, features |-> <<"f1">>]

\* basic/standard/premium priced 10/20/30, delivered in 5/3/1 days
ThreeTiers ==
    << Detail("basic", 1000, 5), DetailF("standard", 2000, 3), Detail("premium", 3000, 1) >>

\* two details of tier basic, none of tier premium
SharedTier ==
    << Detail("basic", 1000, 5), Detail("basic", 1500, 2), DetailF("standard", 2000, 3) >>

\* a detail delivered in -1 days: accepted by the serializer field, refused
\* by the CHECK constraint of the column
NegativeDays ==
    << Detail("basic", 1000, 5), Detail("standard", 2000, 0 - 1), Detail("premium", 3000, 1) >>

\* a detail whose offer_type is no choice of the field
UnknownTier ==
    << Detail("basic", 1000, 5), Detail("standard", 2000, 3), Detail("gold", 3000, 1) >>

CreateDetailLists ==
    { <<>>,
      << Detail("basic", 1000, 5), Detail("standard", 2000, 3) >>,
      ThreeTiers,
      NegativeDays,
      UnknownTier }

CreatePayload(l) == [title |-> "T1", description |-> "D1", details |-> l]

CreatePayloads == { CreatePayload(l) : l \in CreateDetailLists }

\* entries of an update payload: the target is named by offer_type alone or
\* by id; an entry changes price and delivery time, or the other fields
ByType(tier, fields) == [offer_type |-> tier] @@ fields
ById(id, tier, fields) == [id |-> id, offer_type |-> tier] @@ fields

PriceAndDays == [price |-> 2500, delivery_time_in_days |-> 4]
TitleEtc == [title |-> "t2", revisions |-> 2, features |-> <<"f2">>]

AddressedIds == {1, 4}

PatchEntries ==
    { ByType(t, f) : t \in OFFER_TYPE_CHOICES, f \in {PriceAndDays, TitleEtc} }
    \cup { ById(i, t, PriceAndDays) : i \in AddressedIds, t \in {"basic", "premium"} }

PatchDetailLists ==
    { <<e>> : e \in PatchEntries }
    \cup { << ByType("standard", TitleEtc), e >> :
              e \in {x \in PatchEntries : "price" \in DOMAIN x /\ x # ByType("standard", PriceAndDays)} }
    \cup { << [offer_type |-> "basic"] >> }

PatchPayloads ==
    { [details |-> l] : l \in PatchDetailLists }
    \cup { [title |-> "T2"],
           [description |-> "D2", image |-> "img2"],
           [title |-> "T2", details |-> << ByType("premium", PriceAndDays) >>] }

PutPayloads == { [title |-> "T3"] }

OfferIds == 1..MaxOffers

\* the accounts that exist from the start, with pairwise distinct user
\* names and email addresses
InitialUser(u) ==
    [username |-> <<"u1", "u2", "u3", "u4">>[u],
     email |-> <<"u1@x.com", "u2@x.com", "u3@x.com", "u4@x.com">>[u],
     first_name |-> "",
     last_name |-> ""]

\* Profile.objects.create(user=user, user_type=user_type): the columns
\* other than user_type are NULL
NewProfile ==
    [file |-> "null", location |-> "null", tel |-> "null",
     description |-> "null", working_hours |-> "null"]

Init ==
    /\ profiles = [u \in {1, 2, 3} |-> IF u = 3 THEN "customer" ELSE "business"]
    /\ offers = [o \in {} |-> 0]
    /\ details = [i \in {} |-> 0]
    /\ nextOfferId = 1
    /\ nextDetailId = 1
    /\ updates = 0
    /\ orders = [o \in {} |-> 0]
    /\ nextOrderId = 1
    /\ users = [u \in Users |-> InitialUser(u)]
    /\ nextUserId = 5
    /\ tokens = Users
    /\ profile_fields = [u \in {1, 2, 3} |-> NewProfile]
    /\ reviews = [r \in {} |-> 0]
    /\ nextReviewId = 1
    /\ inflight = <<>>
    /\ last = Response(Request("none", Anonymous, 0, <<>>), 0, NoError, NoBody)

\* every endpoint of the offer API, called by every kind of caller
Next ==
    \/ \E c \in Callers, data \in CreatePayloads : OfferListCreateView_post(c, data)
    \/ \E c \in Callers, id \in OfferIds :
          OfferDetailView_patch(c, id, [title |-> "T2", details |-> << ByType("standard", PriceAndDays) >>])
    \/ \E c \in Callers, id \in OfferIds, data \in PutPayloads : OfferDetailView_put(c, id, data)
    \/ \E c \in Callers, id \in OfferIds : OfferDetailView_delete(c, id)
    \/ \E c \in Callers, id \in OfferIds : OfferDetailView_get(c, id)
    \/ \E c \in Callers : OfferListCreateView_get(c)

Spec == Init /\ [][Next]_vars

\* the offers of one business user, updated with every kind of payload
Owners == {1}

NextUpdate ==
    \/ \E c \in Owners, l \in {ThreeTiers, SharedTier, UnknownTier} :
          OfferListCreateView_post(c, CreatePayload(l))
    \/ \E c \in Owners, id \in OfferIds, data \in PatchPayloads : OfferDetailView_patch(c, id, data)
    \/ \E c \in Owners, id \in OfferIds, data \in PutPayloads : OfferDetailView_put(c, id, data)
    \/ \E c \in Owners, id \in OfferIds : OfferDetailView_delete(c, id)
    \/ \E c \in Owners, id \in OfferIds : OfferDetailView_get(c, id)
    \/ \E c \in Owners : OfferListCreateView_get(c)

SpecUpdate == Init /\ [][NextUpdate]_vars

\* inputs of the order API
BusinessUsers == {1, 2}
CustomerUsers == {3}
OrderIds == 1..MaxOrders

\* the basic detail of the first and of the second offer, an id that no
\* detail has, and a payload without offer_detail_id
OrderPayloads ==
    { [offer_detail_id |-> i] : i \in AddressedIds \cup {99} } \cup { <<>> }

\* status payloads: every status, a value that is no status, no status
\* key, and a valid status next to another key
StatusPayloads ==
    { [status |-> t] : t \in STATUS_CHOICES }
    \cup { [status |-> "done"], <<>>, [status |-> "completed", title |-> "t9"] }

\* a full representation that names other parties and other terms
OrderRewrite ==
    [customer_user |-> 4, business_user |-> 2, title |-> "t9", revisions |-> 9,
     delivery_time_in_days |-> 9, price |-> 1, features |-> <<"f9">>,
     offer_type |-> "gold", status |-> "cancelled"]

PutOrderPayloads ==
    { OrderRewrite, [OrderRewrite EXCEPT !.status = "done"], [title |-> "t9"] }

\* query strings of GET /api/orders/
ListParams ==
    { [business_user_id |-> b, customer_user_id |-> k, status |-> t] :
         b \in {<<>>, <<"1">>, <<"0", "2">>, <<"x">>},
         k \in {<<>>, <<"3">>},
         t \in {"", "completed"} }

\* orders placed while the offers they come from are updated and deleted
NextOrders ==
    \/ \E c \in BusinessUsers : OfferListCreateView_post(c, CreatePayload(ThreeTiers))
    \/ \E c \in BusinessUsers, id \in OfferIds :
          OfferDetailView_patch(c, id, [title |-> "T2", details |-> << ByType("basic", PriceAndDays) >>])
    \/ \E c \in BusinessUsers, id \in OfferIds : OfferDetailView_delete(c, id)
    \/ \E c \in Callers, data \in OrderPayloads : OrderListCreateView_post(c, data)

SpecOrders == Init /\ [][NextOrders]_vars

\* the orders of one business user, updated with every kind of payload
NextOrderStatus ==
    \/ \E c \in Owners : OfferListCreateView_post(c, CreatePayload(ThreeTiers))
    \/ \E c \in CustomerUsers, i \in AddressedIds : OrderListCreateView_post(c, [offer_detail_id |-> i])
    \/ \E c \in Owners, id \in OrderIds, data \in StatusPayloads : OrderDetailView_patch(c, id, data)
    \/ \E c \in Owners, id \in OrderIds, data \in PutOrderPayloads : OrderDetailView_put(c, id, data)

SpecOrderStatus == Init /\ [][NextOrderStatus]_vars

\* the single-order endpoint, called by every kind of caller
NextOrderAccess ==
    \/ \E c \in BusinessUsers : OfferListCreateView_post(c, CreatePayload(ThreeTiers))
    \/ \E c \in CustomerUsers, i \in AddressedIds : OrderListCreateView_post(c, [offer_detail_id |-> i])
    \/ \E c \in Callers, id \in OrderIds : OrderDetailView_get(c, id)
    \/ \E c \in Callers, id \in OrderIds : OrderDetailView_patch(c, id, [status |-> "completed"])
    \/ \E c \in Callers, id \in OrderIds, data \in PutOrderPayloads : OrderDetailView_put(c, id, data)

SpecOrderAccess == Init /\ [][NextOrderAccess]_vars

\* the order list, called by every kind of caller with every query string
NextOrderList ==
    \/ \E c \in BusinessUsers : OfferListCreateView_post(c, CreatePayload(ThreeTiers))
    \/ \E c \in CustomerUsers, i \in AddressedIds : OrderListCreateView_post(c, [offer_detail_id |-> i])
    \/ \E c \in BusinessUsers, id \in OrderIds : OrderDetailView_patch(c, id, [status |-> "completed"])
    \/ \E c \in Callers, params \in ListParams : OrderListCreateView_get(c, params)

SpecOrderList == Init /\ [][NextOrderList]_vars

\* deletion of orders, asked for by every kind of caller
NextOrderDelete ==
    \/ \E c \in BusinessUsers : OfferListCreateView_post(c, CreatePayload(ThreeTiers))
    \/ \E c \in CustomerUsers, i \in AddressedIds : OrderListCreateView_post(c, [offer_detail_id |-> i])
    \/ \E c \in BusinessUsers, id \in OrderIds : OrderDetailView_patch(c, id, [status |-> "completed"])
    \/ \E c \in Callers, id \in OrderIds : OrderDetailView_delete(c, id)

SpecOrderDelete == Init /\ [][NextOrderDelete]_vars

(***************************************************************************)
(* Accounts: RegistrationSerializer / RegistrationView, ProfileSerializer  *)
(* / ProfileView                                                           *)
(***************************************************************************)
Unchanged_but_accounts ==
    UNCHANGED <<reviews, nextReviewId, offers, details, nextOfferId, nextDetailId,
                updates, orders, nextOrderId>>

USER_TYPE_CHOICES == {"customer", "business"}

\* BaseUserManager.normalize_email, called by create_user: the domain part
\* is lower-cased, the local part is kept.  Of the addresses used here only
\* "n1@X.com" has an upper-case letter in its domain part.
normalize_email(email) == IF email = "n1@X.com" THEN "n1@x.com" ELSE email

\* the fields of RegistrationSerializer: all five are required, the
\* passwords have at least 8 characters, type is one of the two choices
RegistrationSerializer_fields_valid(data) ==
    /\ DOMAIN data = {"username", "email", "password", "repeated_password", "type"}
    /\ Len(data.password) >= 8
    /\ Len(data.repeated_password) >= 8
    /\ data.type \in USER_TYPE_CHOICES

\* RegistrationSerializer.validate
RegistrationSerializer_validate(us, attrs) ==
    IF attrs.password # attrs.repeated_password
    THEN Err("passwords_do_not_match")
    ELSE IF \E u \in DOMAIN us : us[u].username = attrs.username
    THEN Err("username_taken")
    ELSE IF \E u \in DOMAIN us : us[u].email = attrs.email
    THEN Err("email_registered")
    ELSE NoError

\* is_valid() of a registration: the error of the request, or NoError
RegistrationView_post_rejection(data) ==
    IF ~RegistrationSerializer_fields_valid(data) THEN Err("invalid")
    ELSE RegistrationSerializer_validate(users, data)

\* a block that keeps what it wrote when it fails
transaction_atomic_None(before, after, committed) == after

\* @transaction.atomic: the writes of the block are kept when it returns
\* and undone when it raises
transaction_atomic(before, after, committed) == IF committed THEN after ELSE before

\* User.objects.create_user: the row of the new user
create_user(attrs) ==
    [username |-> attrs.username,
     email |-> normalize_email(attrs.email),
     first_name |-> "",
     last_name |-> ""]

\* the unique index of auth_user.username: the row may be inserted (the
\* email column of auth_user has no unique index)
username_unique(us, row) == ~\E u \in DOMAIN us : us[u].username = row.username

\* the outcomes of a registration after is_valid(): every statement
\* succeeds, Profile.objects.create raises, or Token.objects.get_or_create
\* raises
Failures == {"none", "profile", "token"}

\* RegistrationSerializer.create: the users after the call
RegistrationSerializer_create(us, id, attrs, failure) ==
    LET inserted == [u \in (DOMAIN us) \cup {id} |-> IF u = id THEN create_user(attrs) ELSE us[u]]
    IN  IF ~username_unique(us, create_user(attrs))
        THEN us
        ELSE transaction_atomic(us, inserted, failure # "profile")

\* serializer.save() and Token.objects.get_or_create of RegistrationView.post;
\* every exception is answered 500
RegistrationView_post_save(req, failure) ==
    LET id      == nextUserId
        attrs   == req.payload
        created == username_unique(users, create_user(attrs)) /\ failure # "profile"
    IN  /\ users' = RegistrationSerializer_create(users, id, attrs, failure)
        /\ IF created
           THEN /\ profiles' = [u \in (DOMAIN profiles) \cup {id} |->
                                   IF u = id THEN attrs.type ELSE profiles[u]]
                /\ profile_fields' = [u \in (DOMAIN profile_fields) \cup {id} |->
                                   IF u = id THEN NewProfile ELSE profile_fields[u]]
                /\ nextUserId' = id + 1
           ELSE UNCHANGED <<profiles, profile_fields, nextUserId>>
        /\ IF created /\ failure = "none"
           THEN /\ tokens' = tokens \cup {id}
                /\ last' = Response(req, 201, NoError,
                                    [token |-> id, username |-> attrs.username,
                                     email |-> normalize_email(attrs.email), user_id |-> id])
           ELSE /\ tokens' = tokens
                /\ last' = Response(req, 500, Err("internal_server_error"), NoBody)

\* POST /api/registration/   (RegistrationView.post), handled without
\* another request in between
RegistrationView_post(data, failure) ==
    LET req == Request("POST registration", Anonymous, 0, data)
        e   == RegistrationView_post_rejection(data)
    IN  /\ nextUserId <= 4 + MaxRegistrations
        /\ IF e # NoError
           THEN /\ last' = Response(req, 400, e, NoBody)
                /\ Unchanged_db
           ELSE /\ RegistrationView_post_save(req, failure)
                /\ Unchanged_but_accounts
                /\ UNCHANGED inflight

\* POST /api/registration/ up to the end of is_valid()
RegistrationView_post_is_valid(data) ==
    LET req == Request("POST registration", Anonymous, 0, data)
        e   == RegistrationView_post_rejection(data)
    IN  /\ nextUserId <= 4 + MaxRegistrations
        /\ Len(inflight) < MaxInflight
        /\ IF e # NoError
           THEN /\ last' = Response(req, 400, e, NoBody)
                /\ Unchanged_db
           ELSE /\ inflight' = Append(inflight, req)
                /\ Unchanged_but_accounts
                /\ UNCHANGED <<users, nextUserId, tokens, profiles, profile_fields, last>>

\* POST /api/registration/ from serializer.save() on, for a request that
\* passed is_valid() earlier
RegistrationView_post_then_save(k, failure) ==
    /\ k \in 1..Len(inflight)
    /\ inflight[k].op = "POST registration"
    /\ RegistrationView_post_save(inflight[k], failure)
    /\ inflight' = Remove(inflight, k)
    /\ Unchanged_but_accounts

\* the writable fields of ProfileSerializer; user, username, type and
\* created_at are read-only and dropped from the payload
ProfileUserFields == {"first_name", "last_name", "email"}
ProfileOwnFields == {"file", "location", "tel", "description", "working_hours"}

\* ProfileSerializer.validate for the profile of user pk
ProfileSerializer_validate(us, pk, data) ==
    IF /\ "email" \in DOMAIN data
       /\ data.email # ""
       /\ \E u \in (DOMAIN us) \ {pk} : us[u].email = data.email
    THEN Err("email_in_use")
    ELSE NoError

\* ProfileSerializer.update: the row of the user
ProfileSerializer_update_user(row, data) ==
    [f \in DOMAIN row |-> IF f \in ProfileUserFields /\ f \in DOMAIN data THEN data[f] ELSE row[f]]

\* ProfileSerializer.update: the row of the profile
ProfileSerializer_update_profile(row, data) ==
    [f \in DOMAIN row |-> IF f \in ProfileOwnFields /\ f \in DOMAIN data THEN data[f] ELSE row[f]]

\* ProfileSerializer(profile).data: empty values are shown as ""
ProfileSerializer_data(us, ps, pf, pk) ==
    [user |-> pk, username |-> us[pk].username, type |-> ps[pk], email |-> us[pk].email,
     first_name |-> us[pk].first_name, last_name |-> us[pk].last_name,
     location |-> IF pf[pk].location = "null" THEN "" ELSE pf[pk].location]

\* UpdateModelMixin.update of ProfileView: serializer.is_valid() and save()
ProfileView_perform_update(req) ==
    LET pk   == req.target
        data == req.payload
        e    == ProfileSerializer_validate(users, pk, data)
    IN  IF e # NoError
        THEN /\ last' = Response(req, 400, e, NoBody)
             /\ UNCHANGED <<users, profile_fields>>
        ELSE LET us == [users EXCEPT ![pk] = ProfileSerializer_update_user(@, data)]
                 pf == [profile_fields EXCEPT ![pk] = ProfileSerializer_update_profile(@, data)]
             IN  /\ users' = us
                 /\ profile_fields' = pf
                 /\ last' = Response(req, 200, NoError, ProfileSerializer_data(us, profiles, pf, pk))

\* a test that lets every caller through
is_owner_Anyone(c, pk) == TRUE

\* request.user.id != obj.user.id of ProfileView.patch
is_owner(c, pk) == c = pk

\* PATCH /api/profile/{pk}/   (ProfileView.patch, AllowAny)
ProfileView_patch(c, pk, data) ==
    LET req == Request("PATCH profile", c, pk, data) IN
    IF pk \notin DOMAIN profiles
    THEN /\ last' = Response(req, 404, Err("not_found"), NoBody)
         /\ Unchanged_db
    ELSE IF ~is_owner(c, pk)
    THEN /\ last' = Response(req, 403, Err("permission_denied"), NoBody)
         /\ Unchanged_db
    ELSE /\ ProfileView_perform_update(req)
         /\ Unchanged_but_accounts
         /\ UNCHANGED <<nextUserId, tokens, profiles, inflight>>

\* PUT /api/profile/{pk}/   (UpdateModelMixin.put of RetrieveUpdateAPIView,
\* which ProfileView does not override; AllowAny)
ProfileView_put(c, pk, data) ==
    LET req == Request("PUT profile", c, pk, data) IN
    IF pk \notin DOMAIN profiles
    THEN /\ last' = Response(req, 404, Err("not_found"), NoBody)
         /\ Unchanged_db
    ELSE /\ ProfileView_perform_update(req)
         /\ Unchanged_but_accounts
         /\ UNCHANGED <<nextUserId, tokens, profiles, inflight>>

\* PATCH /api/profile/{pk}/ up to the end of is_valid(), for the owner
ProfileView_patch_is_valid(c, pk, data) ==
    LET req == Request("PATCH profile", c, pk, data)
        e   == ProfileSerializer_validate(users, pk, data)
    IN  /\ Len(inflight) < MaxInflight
        /\ IF pk \notin DOMAIN profiles
           THEN /\ last' = Response(req, 404, Err("not_found"), NoBody)
                /\ Unchanged_db
           ELSE IF ~is_owner(c, pk)
           THEN /\ last' = Response(req, 403, Err("permission_denied"), NoBody)
                /\ Unchanged_db
           ELSE IF e # NoError
           THEN /\ last' = Response(req, 400, e, NoBody)
                /\ Unchanged_db
           ELSE /\ inflight' = Append(inflight, req)
                /\ Unchanged_but_accounts
                /\ UNCHANGED <<users, nextUserId, tokens, profiles, profile_fields, last>>

\* PATCH /api/profile/{pk}/ from serializer.save() on, for a request that
\* passed is_valid() earlier
ProfileView_patch_then_save(k) ==
    LET req  == inflight[k]
        pk   == req.target
        data == req.payload
        us   == [users EXCEPT ![pk] = ProfileSerializer_update_user(@, data)]
        pf   == [profile_fields EXCEPT ![pk] = ProfileSerializer_update_profile(@, data)]
    IN  /\ k \in 1..Len(inflight)
        /\ req.op = "PATCH profile"
        /\ users' = us
        /\ profile_fields' = pf
        /\ last' = Response(req, 200, NoError, ProfileSerializer_data(us, profiles, pf, pk))
        /\ inflight' = Remove(inflight, k)
        /\ Unchanged_but_accounts
        /\ UNCHANGED <<nextUserId, tokens, profiles>>

\* inputs of the account API
Password == <<"p", "a", "s", "s", "w", "o", "r", "d">>
OtherPassword == <<"p", "a", "s", "s", "w", "o", "r", "t">>
ShortPassword == <<"p", "w">>

Registration(username, email, type) ==
    [username |-> username, email |-> email, password |-> Password,
     repeated_password |-> Password, type |-> type]

\* two new accounts, a user name and an email address that are taken,
\* passwords that differ or are too short, a type that is no choice, and a
\* payload without type
RegistrationPayloads ==
    { Registration("n1", "n1@x.com", "customer"),
      Registration("n2", "n2@x.com", "business"),
      Registration("u1", "n2@x.com", "customer"),
      Registration("n2", "u1@x.com", "business"),
      [Registration("n1", "n1@x.com", "customer") EXCEPT !.repeated_password = OtherPassword],
      [Registration("n1", "n1@x.com", "customer") EXCEPT !.password = ShortPassword,
                                                         !.repeated_password = ShortPassword],
      Registration("n1", "n1@x.com", "admin"),
      [username |-> "n1", email |-> "n1@x.com", password |-> Password,
       repeated_password |-> Password] }

ProfileIds == {1, 3, 4}

\* registrations with every outcome, and profile updates that name a type
NextRegistration ==
    \/ \E data \in RegistrationPayloads, failure \in Failures : RegistrationView_post(data, failure)
    \/ \E c \in {1, 3}, pk \in {1, 3} :
          ProfileView_patch(c, pk, [type |-> "customer", location |-> "L"])
    \/ \E c \in {1, 3}, pk \in {1, 3} :
          ProfileView_put(c, pk, [type |-> "business", tel |-> "1"])

SpecRegistration == Init /\ [][NextRegistration]_vars

ProfilePatchPayloads ==
    { [first_name |-> "F", location |-> "L"], [email |-> "z@x.com"], [email |-> "u2@x.com"] }

ProfilePutPayloads == { [first_name |-> "G", email |-> "y@x.com", location |-> "M"] }

\* the profile endpoint, called by every kind of caller
NextProfiles ==
    \/ \E c \in Callers, pk \in ProfileIds, data \in ProfilePatchPayloads : ProfileView_patch(c, pk, data)
    \/ \E c \in Callers, pk \in ProfileIds, data \in ProfilePutPayloads : ProfileView_put(c, pk, data)

SpecProfiles == Init /\ [][NextProfiles]_vars

\* registrations and a profile update that name the same address and
\* overlap: is_valid() of one request runs before save() of another
RacePayloads ==
    { Registration("n1", "n1@x.com", "customer"),
      Registration("n2", "n1@x.com", "business"),
      Registration("n2", "n1@X.com", "business"),
      Registration("n1", "n2@x.com", "customer") }

NextAccountsRace ==
    \/ \E data \in RacePayloads : RegistrationView_post_is_valid(data)
    \/ \E k \in 1..MaxInflight : RegistrationView_post_then_save(k, "none")
    \/ \E c \in CustomerUsers : ProfileView_patch_is_valid(c, c, [email |-> "n1@x.com"])
    \/ \E k \in 1..MaxInflight : ProfileView_patch_then_save(k)

SpecAccountsRace == Init /\ [][NextAccountsRace]_vars

\* inputs of the review API
ReviewIds == 1..MaxReviews

ReviewOf(b, rating) == [business_user |-> b, rating |-> rating, description |-> "d1"]

\* reviews of the two business users, of the customer, of the account
\* without profile and of a user that does not exist, a rating out of
\* range, and a review without description
ReviewPayloads ==
    { ReviewOf(b, 4) : b \in {1, 2, 3, 4, 9} }
    \cup { ReviewOf(1, 6), [business_user |-> 2, rating |-> 5] }

\* update payloads: each field alone, both, none, a rating out of range,
\* and payloads that name the parties
ReviewUpdatePayloads ==
    { [rating |-> 2], [description |-> "d2"], [rating |-> 3, description |-> "d2"],
      <<>>, [rating |-> 0], [rating |-> 2, business_user |-> 2], [reviewer |-> 1] }

\* the review API, called by every kind of caller
NextReviews ==
    \/ \E c \in Callers, data \in ReviewPayloads : ReviewViewSet_create(c, data)
    \/ \E c \in Callers, id \in ReviewIds : ReviewViewSet_update(c, id, [rating |-> 2])
    \/ \E c \in Callers, id \in ReviewIds : ReviewViewSet_partial_update(c, id, [description |-> "d2"])
    \/ \E c \in Callers, id \in ReviewIds : ReviewViewSet_destroy(c, id)

SpecReviews == Init /\ [][NextReviews]_vars

\* the reviews of one customer, updated with every kind of payload
NextReviewUpdate ==
    \/ \E c \in CustomerUsers, b \in BusinessUsers : ReviewViewSet_create(c, ReviewOf(b, 4))
    \/ \E c \in CustomerUsers, id \in ReviewIds, data \in ReviewUpdatePayloads :
          ReviewViewSet_update(c, id, data)
    \/ \E c \in CustomerUsers, id \in ReviewIds, data \in ReviewUpdatePayloads :
          ReviewViewSet_partial_update(c, id, data)
    \/ \E c \in CustomerUsers, id \in ReviewIds : ReviewViewSet_retrieve(c, id)

SpecReviewUpdate == Init /\ [][NextReviewUpdate]_vars

\* review creations of one customer that overlap: is_valid() of one
\* request runs before save() of another
NextReviewRace ==
    \/ \E c \in CustomerUsers, b \in BusinessUsers, rating \in {4, 5} :
          ReviewViewSet_create_is_valid(c, ReviewOf(b, rating))
    \/ \E k \in 1..MaxInflight : ReviewViewSet_create_save(k)
    \/ \E c \in CustomerUsers, id \in ReviewIds : ReviewViewSet_destroy(c, id)

SpecReviewRace == Init /\ [][NextReviewRace]_vars

(***************************************************************************)
(* Properties                                                              *)
(***************************************************************************)
OfferTypesOf(dets, id) == {dets[i].offer_type : i \in DetailsOf(dets, id)}

IsBusinessProfile(u) == u \in DOMAIN profiles /\ profiles[u] = "business"

\* C1: in every reachable state every persisted Offer has at least 3
\* OfferDetail rows (creating the header and inserting the details is
\* all-or-nothing).
C1_AtLeastThreeDetails ==
    \A o \in DOMAIN offers : Cardinality(DetailsOf(details, o)) >= 3

\* C2 as stated: the details of every persisted offer carry pairwise
\* distinct tiers.
C2_DistinctTiers ==
    \A o \in DOMAIN offers :
        \A i, j \in DetailsOf(details, o) :
            i # j => details[i].offer_type # details[j].offer_type

\* C2 as amended: every detail carries one of the tiers basic, standard,
\* premium (two details of an offer may carry the same tier), and as long as
\* an offer exists its set of details and the tier of each of them stay as
\* they were created.
C2_TiersValidAndStable ==
    [][ /\ \A i \in DOMAIN details' : details'[i].offer_type \in OFFER_TYPE_CHOICES
        /\ \A o \in (DOMAIN offers) \cap (DOMAIN offers') :
              /\ DetailsOf(details', o) = DetailsOf(details, o)
              /\ \A i \in DetailsOf(details, o) :
                    details'[i].offer_type = details[i].offer_type ]_vars

\* an offer with two details of one tier has been updated through one of them
C2_Witness ==
    /\ last.op = "PATCH offer"
    /\ last.status = 200
    /\ last.target \in DOMAIN offers
    /\ \E i, j \in DetailsOf(details, last.target) :
          /\ i # j
          /\ details[i].offer_type = details[j].offer_type
          /\ details[i].price = 2500

\* C3: an offer creation whose details list has fewer than 3 entries fails
\* whatever the caller's role is, and leaves offers and details unchanged.
C3_FewerThanThreeRejected ==
    [][ (last'.op = "POST offers" /\ Len(last'.payload.details) < 3)
        => /\ last'.status >= 400
           /\ offers' = offers
           /\ details' = details ]_vars

\* a business user sent two details and validate_details refused them
C3_Witness ==
    /\ last.op = "POST offers"
    /\ IsBusinessProfile(last.caller)
    /\ Len(last.payload.details) = 2
    /\ last.status = 400
    /\ last.error.kind = "min_3_details"

\* C4: an offer creation by an authenticated caller whose profile is not
\* business-type (customer profile or no profile) is answered 403 and creates
\* no offer and no detail, an unauthenticated one is refused as well, and
\* the owner of every persisted offer is a business-type user.
C4_OnlyBusinessCreates ==
    [][ /\ (last'.op = "POST offers" /\ last'.caller \in Users /\ ~IsBusinessProfile(last'.caller))
           => (last'.status = 403 /\ offers' = offers /\ details' = details)
        /\ (last'.op = "POST offers" /\ last'.caller \notin Users)
           => (last'.status >= 400 /\ offers' = offers /\ details' = details)
        /\ \A o \in DOMAIN offers' : IsBusinessProfile(offers'[o].user) ]_vars

\* a customer asked for an offer with three valid details while an offer of a
\* business user is persisted
C4_Witness ==
    /\ last.op = "POST offers"
    /\ last.caller \in DOMAIN profiles
    /\ profiles[last.caller] = "customer"
    /\ last.payload.details = ThreeTiers
    /\ last.status = 403
    /\ DOMAIN offers # {}

\* C5: PATCH, PUT and DELETE of an offer by an authenticated user who is not
\* its owner are answered 403 and leave the offer and its details unchanged.
C5_OnlyOwnerMutates ==
    [][ ( /\ last'.op \in {"PATCH offer", "PUT offer", "DELETE offer"}
          /\ last'.caller \in Users
          /\ last'.target \in DOMAIN offers
          /\ offers[last'.target].user # last'.caller )
        => /\ last'.status = 403
           /\ offers' = offers
           /\ details' = details ]_vars

\* C6: an offer update that fails to identify the target of an entry leaves
\* the offer header and every detail as they were before the request.
C6_UpdateAllOrNothing ==
    [][ ( /\ last'.op = "PATCH offer"
          /\ last'.error.kind \in {"not_found_for_offer", "no_detail_with_offer_type",
                                   "multiple_details_with_offer_type"} )
        => /\ offers' = offers
           /\ details' = details ]_vars

\* the request passed authentication, lookup, the owner check and validation
Processed(r) ==
    r.error.kind \notin {"not_authenticated", "not_found", "permission_denied", "invalid"}

EntriesOf(r) == IF "details" \in DOMAIN r.payload THEN r.payload.details ELSE <<>>

\* the number of details of offer o that carry tier t
TierCount(o, t) ==
    Cardinality({i \in DOMAIN details : details[i].offer = o /\ details[i].offer_type = t})

\* detail i shows the values of entry e
ShowsEntry(row, e) ==
    /\ ("title" \in DOMAIN e => row.title = e.title)
    /\ ("revisions" \in DOMAIN e => row.revisions = e.revisions)
    /\ ("delivery_time_in_days" \in DOMAIN e => row.delivery_time = e.delivery_time_in_days)
    /\ ("price" \in DOMAIN e => row.price = e.price)
    /\ ("features" \in DOMAIN e => row.features = e.features)

\* C7: an entry without id is resolved by tier among the details of the
\* offer: no detail of that tier gives the 'no detail' error, two or more
\* give the 'multiple details' error, exactly one is updated; an entry with
\* id never gives the 'multiple details' error.
C7_ResolvedByTier ==
    [][ LET r == last' IN
        (r.op = "PATCH offer" /\ Processed(r) /\ Len(EntriesOf(r)) >= 1) =>
        LET o  == r.target
            es == EntriesOf(r)
            e  == es[1]
            n  == TierCount(o, e.offer_type)
        IN  /\ ("id" \notin DOMAIN e /\ n = 0) =>
                   (r.status = 400 /\ r.error = ErrType("no_detail_with_offer_type", e.offer_type))
            /\ ("id" \notin DOMAIN e /\ n > 1) =>
                   (r.status = 400 /\ r.error = ErrType("multiple_details_with_offer_type", e.offer_type))
            /\ ("id" \notin DOMAIN e /\ n = 1) =>
                   /\ r.error # ErrType("no_detail_with_offer_type", e.offer_type)
                   /\ r.error # ErrType("multiple_details_with_offer_type", e.offer_type)
                   /\ Len(es) = 1 =>
                         /\ r.status = 200
                         /\ DOMAIN details' = DOMAIN details
                         /\ \A i \in DOMAIN details :
                               IF details[i].offer = o /\ details[i].offer_type = e.offer_type
                               THEN ShowsEntry(details'[i], e)
                               ELSE details'[i] = details[i]
            /\ r.error.kind = "no_detail_with_offer_type" =>
                   \E k \in 1..Len(es) :
                       /\ "id" \notin DOMAIN es[k]
                       /\ es[k].offer_type = r.error.offer_type
                       /\ TierCount(o, es[k].offer_type) = 0
            /\ r.error.kind = "multiple_details_with_offer_type" =>
                   \E k \in 1..Len(es) :
                       /\ "id" \notin DOMAIN es[k]
                       /\ es[k].offer_type = r.error.offer_type
                       /\ TierCount(o, es[k].offer_type) > 1
            /\ ("id" \in DOMAIN e /\ Len(es) = 1) =>
                   r.error.kind # "multiple_details_with_offer_type" ]_vars

\* an entry naming tier basic was refused because two details carry it
C7_Witness ==
    /\ last.op = "PATCH offer"
    /\ last.error = ErrType("multiple_details_with_offer_type", "basic")
    /\ last.target \in DOMAIN offers
    /\ TierCount(last.target, "basic") = 2

\* C8: an offer update never modifies a detail of another offer, and an entry
\* whose id names a detail that does not belong to the updated offer fails
\* with the 'not found for this offer' error.
C8_OtherOffersUntouched ==
    [][ LET r == last' IN
        r.op = "PATCH offer" =>
        LET o  == r.target
            es == EntriesOf(r)
            Foreign(e) == "id" \in DOMAIN e /\ ~(e.id \in DOMAIN details /\ details[e.id].offer = o)
        IN  /\ \A i \in DOMAIN details :
                   details[i].offer # o => (i \in DOMAIN details' /\ details'[i] = details[i])
            /\ (Processed(r) /\ \E k \in 1..Len(es) : Foreign(es[k])) => r.status = 400
            /\ (Processed(r) /\ Len(es) >= 1 /\ Foreign(es[1])) =>
                   r.error = ErrId("not_found_for_offer", es[1].id)
            /\ r.error.kind = "not_found_for_offer" =>
                   \E k \in 1..Len(es) : Foreign(es[k]) /\ es[k].id = r.error.id ]_vars

\* the update of one offer named a detail of another persisted offer
C8_Witness ==
    /\ last.op = "PATCH offer"
    /\ last.error.kind = "not_found_for_offer"
    /\ last.target \in DOMAIN offers
    /\ last.error.id \in DOMAIN details
    /\ details[last.error.id].offer # last.target

\* the key of an entry that carries the value of a column
EntryKey(f) == IF f = "delivery_time" THEN "delivery_time_in_days" ELSE f

\* C9: a successful offer update changes, on each addressed detail, exactly
\* the fields present in its entry (the last entry that carries the field
\* when several address the detail); absent fields, tier, parent offer and
\* the details not addressed are unchanged, and title, description and image
\* of the offer change only when present in the payload.
C9_OnlyPresentFieldsChange ==
    [][ LET r == last' IN
        (r.op \in {"PATCH offer", "PUT offer"} /\ r.status = 200) =>
        LET o  == r.target
            es == IF r.op = "PATCH offer" THEN EntriesOf(r) ELSE <<>>
            Addresses(e, i) ==
                /\ details[i].offer = o
                /\ IF "id" \in DOMAIN e THEN e.id = i ELSE details[i].offer_type = e.offer_type
        IN  /\ DOMAIN details' = DOMAIN details
            /\ \A i \in DOMAIN details :
                  /\ details'[i].offer = details[i].offer
                  /\ details'[i].offer_type = details[i].offer_type
                  /\ \A f \in {"title", "revisions", "delivery_time", "price", "features"} :
                        LET ks == {k \in 1..Len(es) : Addresses(es[k], i) /\ EntryKey(f) \in DOMAIN es[k]}
                        IN  IF ks = {}
                            THEN details'[i][f] = details[i][f]
                            ELSE details'[i][f] = es[CHOOSE k \in ks : \A j \in ks : j <= k][EntryKey(f)]
            /\ DOMAIN offers' = DOMAIN offers
            /\ \A x \in DOMAIN offers :
                  /\ offers'[x].user = offers[x].user
                  /\ \A f \in {"title", "description", "image"} :
                        offers'[x][f] = IF x = o /\ f \in DOMAIN r.payload
                                        THEN r.payload[f] ELSE offers[x][f] ]_vars

\* two entries were applied: one detail got the new title and kept its price,
\* another got the new price and kept its title, the offer kept its title
C9_Witness ==
    /\ last.op = "PATCH offer"
    /\ last.status = 200
    /\ Len(EntriesOf(last)) = 2
    /\ last.target \in DOMAIN offers
    /\ offers[last.target].title = "T1"
    /\ \E i, j \in DetailsOf(details, last.target) :
          /\ details[i].title = "t2" /\ details[i].price # 2500
          /\ details[j].title = "t1" /\ details[j].price = 2500

\* m is the SQL MIN of the values S
IsMinOf(m, S) ==
    IF S = {} THEN m = <<>>
    ELSE Len(m) = 1 /\ m[1] \in S /\ \A x \in S : m[1] <= x

MinReadBack(b, o) ==
    LET rows == {i \in DOMAIN details : details[i].offer = o}
        prices == {details[i].price : i \in rows}
        days == {details[i].delivery_time : i \in rows}
    IN  /\ IsMinOf(b.min_price, prices)
        /\ IsMinOf(b.min_delivery_time, days)
        /\ (prices = {1000, 2000, 3000} /\ days = {5, 3, 1}) =>
               (b.min_price = <<1000>> /\ b.min_delivery_time = <<1>>)

\* C10: the min_price and min_delivery_time read back for an offer, from the
\* detail endpoint or the listing, are the minimum of price and of
\* delivery_time over the offer's current detail rows.
C10_MinReadBack ==
    /\ (last.op = "GET offer" /\ last.status = 200) => MinReadBack(last.body, last.target)
    /\ last.op = "GET offers" =>
           \A o \in DOMAIN offers : o \in DOMAIN last.body /\ MinReadBack(last.body[o], o)

\* an offer was read after the price of its cheapest detail had been raised
C10_Witness ==
    /\ last.op = "GET offer"
    /\ last.status = 200
    /\ last.body.min_price = <<1500>>
    /\ last.body.min_delivery_time = <<2>>
    /\ Cardinality(DOMAIN offers) = 2

\* the terms an order copies from the OfferDetail it is created from
SnapshotOf(row) ==
    [title |-> row.title,
     revisions |-> row.revisions,
     delivery_time_in_days |-> row.delivery_time_in_days,
     price |-> row.price,
     features |-> row.features,
     offer_type |-> row.offer_type]

IsCustomerProfile(u) == u \in DOMAIN profiles /\ profiles[u] = "customer"

\* C11: a successful POST /api/orders/ for offer_detail_id d adds exactly
\* one order; its title, revisions, delivery_time_in_days, price, features
\* and tier are those of detail d at that instant, its customer is the
\* caller, its business user is the owner of d's offer and its status is
\* in_progress; the other orders stay as they are.
C11_OrderIsSnapshotOfDetail ==
    [][ (last'.op = "POST orders" /\ last'.status = 201) =>
          LET d  == last'.payload.offer_detail_id
              id == last'.body.id
          IN  /\ d \in DOMAIN details
              /\ id \notin DOMAIN orders
              /\ DOMAIN orders' = (DOMAIN orders) \cup {id}
              /\ \A o \in DOMAIN orders : orders'[o] = orders[o]
              /\ orders'[id].title = details[d].title
              /\ orders'[id].revisions = details[d].revisions
              /\ orders'[id].delivery_time_in_days = details[d].delivery_time
              /\ orders'[id].price = details[d].price
              /\ orders'[id].features = details[d].features
              /\ orders'[id].offer_type = details[d].offer_type
              /\ orders'[id].customer_user = last'.caller
              /\ orders'[id].business_user = offers[details[d].offer].user
              /\ orders'[id].status = "in_progress" ]_vars

\* the customer ordered the basic detail of the second offer, owned by
\* business user 2, after its price and delivery time had been changed
C11_Witness ==
    /\ last.op = "POST orders"
    /\ last.status = 201
    /\ last.payload.offer_detail_id = 4
    /\ orders[last.body.id].business_user = 2
    /\ orders[last.body.id].customer_user = 3
    /\ orders[last.body.id].price = 2500
    /\ orders[last.body.id].delivery_time_in_days = 4
    /\ orders[last.body.id].status = "in_progress"

\* C12: orders do not depend on the detail they were created from: two
\* orders created one after the other from the same OfferDetail carry equal
\* title, revisions, delivery_time_in_days, price, features and tier, and no
\* update of a detail or of its offer and no deletion of an offer changes
\* any field of any order or removes an order.
C12_OrdersIndependentOfDetail ==
    [][ /\ (/\ last.op = "POST orders" /\ last.status = 201
            /\ last'.op = "POST orders" /\ last'.status = 201
            /\ last'.payload.offer_detail_id = last.payload.offer_detail_id) =>
               SnapshotOf(orders'[last'.body.id]) = SnapshotOf(orders'[last.body.id])
        /\ last'.op \in {"PATCH offer", "PUT offer", "DELETE offer"} => orders' = orders ]_vars

\* two orders with equal terms were placed with business user 1, whose
\* offers have all been deleted since
C12_Witness ==
    /\ last.op = "DELETE offer"
    /\ last.status = 204
    /\ last.caller = 1
    /\ \A o \in DOMAIN offers : offers[o].user # 1
    /\ DOMAIN orders = {1, 2}
    /\ orders[1].business_user = 1
    /\ orders[2].business_user = 1
    /\ SnapshotOf(orders[1]) = SnapshotOf(orders[2])

\* the request names an OfferDetail row that exists
NamesExistingDetail(r) ==
    "offer_detail_id" \in DOMAIN r.payload /\ r.payload.offer_detail_id \in DOMAIN details

\* C14: an order is created only by POST /api/orders/ from a caller with a
\* customer profile naming an existing OfferDetail id; a POST from any other
\* caller (business profile, no profile, unauthenticated) or naming no
\* existing detail is refused and the set of orders stays as it is.
C14_OnlyCustomersOrderExistingDetails ==
    [][ /\ (DOMAIN orders') \ (DOMAIN orders) # {} =>
               /\ last'.op = "POST orders"
               /\ IsCustomerProfile(last'.caller)
               /\ NamesExistingDetail(last')
        /\ (last'.op = "POST orders" /\ ~(IsCustomerProfile(last'.caller) /\ NamesExistingDetail(last'))) =>
               /\ last'.status \in 400..499
               /\ orders' = orders ]_vars

\* while offers exist, the customer named a detail that does not exist
C14_Witness ==
    /\ last.op = "POST orders"
    /\ last.caller = 3
    /\ last.payload = [offer_detail_id |-> 99]
    /\ last.status = 400
    /\ last.error = Err("offer_detail_not_found")
    /\ DOMAIN details # {}
    /\ DOMAIN orders = {1}

\* the parties and the terms of an order: every field but status
FixedFieldsOf(row) ==
    [customer_user |-> row.customer_user, business_user |-> row.business_user] @@ SnapshotOf(row)

\* C13: no request to the order endpoints (GET, PATCH, PUT of an order, GET
\* and POST of the list) changes title, revisions, delivery_time_in_days,
\* price, features, tier, customer or business user of an existing order;
\* only its status changes.
C13_OrderFieldsImmutable ==
    [][ \A o \in (DOMAIN orders) \cap (DOMAIN orders') :
            FixedFieldsOf(orders'[o]) = FixedFieldsOf(orders[o]) ]_vars

\* C15: a PATCH or PUT of an order by an authenticated user who is not the
\* order's business user (its customer, the business user of another order,
\* an account without profile) leaves the status of the order as it was.
C15_OnlyLinkedBusinessChangesStatus ==
    [][ (/\ last'.op \in {"PATCH order", "PUT order"}
         /\ last'.target \in (DOMAIN orders) \cap (DOMAIN orders')
         /\ last'.caller # orders[last'.target].business_user) =>
            orders'[last'.target].status = orders[last'.target].status ]_vars

\* the request carries a key other than status
HasExtraKey(r) == (DOMAIN r.payload) \ {"status"} # {}

\* C16: a PATCH of an order whose payload carries any key other than status
\* is refused as a whole, also when the status in it is valid and the
\* caller is the order's business user; no order changes.
C16_ExtraKeyRejected ==
    [][ (last'.op = "PATCH order" /\ HasExtraKey(last')) =>
            /\ last'.status \in 400..499
            /\ orders' = orders ]_vars

\* the business user of an order in progress sent a valid status next to a
\* title and was refused
C16_Witness ==
    /\ last.op = "PATCH order"
    /\ last.payload = [status |-> "completed", title |-> "t9"]
    /\ last.target \in DOMAIN orders
    /\ last.caller = orders[last.target].business_user
    /\ IsBusinessProfile(last.caller)
    /\ last.status = 400
    /\ last.error = Err("only_status")
    /\ orders[last.target].status = "in_progress"

\* the request carries no status, or a value that is no status
LacksValidStatus(r) ==
    "status" \notin DOMAIN r.payload \/ r.payload.status \notin STATUS_CHOICES

\* C17: the status of every order is one of pending, in_progress,
\* completed, cancelled; a status update (PATCH) without status key or with
\* a value outside the four is refused, a PUT with such a value is refused,
\* and in each case no order changes.
C17_StatusWithinChoices ==
    [][ /\ \A o \in DOMAIN orders' : orders'[o].status \in STATUS_CHOICES
        /\ (last'.op = "PATCH order" /\ LacksValidStatus(last')) =>
               /\ last'.status \in 400..499
               /\ orders' = orders
        /\ (/\ last'.op = "PUT order"
            /\ "status" \in DOMAIN last'.payload
            /\ last'.payload.status \notin STATUS_CHOICES) =>
               /\ last'.status \in 400..499
               /\ orders' = orders ]_vars

\* the business user of a pending order sent a payload without status and
\* was refused
C17_Witness ==
    /\ last.op = "PATCH order"
    /\ last.payload = <<>>
    /\ last.target \in DOMAIN orders
    /\ last.caller = orders[last.target].business_user
    /\ last.status = 400
    /\ last.error = Err("invalid_status")
    /\ orders[last.target].status = "pending"

\* C18: no order of the statuses is enforced: for every pair (s, t) of the
\* four statuses, a PATCH {status: t} by the business user of an order in
\* status s is accepted and leaves the order in status t.
C18_AnyStatusTransition ==
    [][ \A s, t \in STATUS_CHOICES :
          (/\ last'.op = "PATCH order"
           /\ last'.payload = [status |-> t]
           /\ last'.target \in DOMAIN orders
           /\ orders[last'.target].status = s
           /\ last'.caller = orders[last'.target].business_user
           /\ IsBusinessProfile(last'.caller)) =>
              /\ last'.status = 200
              /\ last'.target \in DOMAIN orders'
              /\ orders'[last'.target].status = t ]_vars

\* one order was taken out of cancelled and is pending again while the
\* other is completed
C18_Witness ==
    /\ last.op = "PATCH order"
    /\ last.status = 200
    /\ last.payload = [status |-> "pending"]
    /\ DOMAIN orders = {1, 2}
    /\ orders[last.target].status = "pending"
    /\ \E o \in DOMAIN orders : o # last.target /\ orders[o].status = "completed"

IsParty(u, row) == row.customer_user = u \/ row.business_user = u

\* the order passes the filters of the query string
MatchesFilters(row, params) ==
    /\ params.business_user_id # <<>> => row.business_user = int(params.business_user_id)
    /\ params.customer_user_id # <<>> => row.customer_user = int(params.customer_user_id)
    /\ params.status # "" => row.status = params.status

\* C19: for a caller who is not staff, every order in the listing has the
\* caller as customer or business user, whatever business_user_id,
\* customer_user_id and status the query string carries (a filter with the
\* caller's own id next to a filter with another user's id included), and
\* the listing holds every such order that passes the filters; a staff
\* caller gets all orders that pass the filters.
C19_ListShowsOwnOrders ==
    (last.op = "GET orders" /\ last.status = 200) =>
        /\ DOMAIN last.body \subseteq DOMAIN orders
        /\ \A o \in DOMAIN orders :
              o \in DOMAIN last.body <=>
                 /\ MatchesFilters(orders[o], last.payload)
                 /\ is_staff(last.caller) \/ IsParty(last.caller, orders[o])
        /\ \A o \in DOMAIN last.body : last.body[o] = OrderListSerializer_data(orders, o)

\* business user 1 asked for the own orders placed by customer 3 and got
\* one, while an order with business user 2 exists
C19_Witness ==
    /\ last.op = "GET orders"
    /\ last.status = 200
    /\ last.caller = 1
    /\ last.payload.business_user_id = <<"1">>
    /\ last.payload.customer_user_id = <<"3">>
    /\ DOMAIN last.body # {}
    /\ \E o \in DOMAIN orders : orders[o].business_user = 2

\* C20: GET /api/orders/{id}/ returns the order only to its customer and
\* its business user (and to staff); to any other caller it is not
\* returned.
C20_OnlyPartiesRetrieve ==
    (last.op = "GET order" /\ last.status = 200) =>
        /\ last.target \in DOMAIN orders
        /\ is_staff(last.caller) \/ IsParty(last.caller, orders[last.target])

\* C21: an order is deleted only by an administrator: a DELETE of an order
\* by an authenticated user who is not staff (its customer and its business
\* user included) is answered 403 and leaves every order with all its
\* fields; an order disappears only through a DELETE by a staff user.
C21_OnlyStaffDeletesOrders ==
    [][ /\ (DOMAIN orders) \ (DOMAIN orders') # {} =>
               /\ last'.op = "DELETE order"
               /\ last'.caller \in Staff
               /\ (DOMAIN orders) \ (DOMAIN orders') = {last'.target}
        /\ (/\ last'.op = "DELETE order"
            /\ IsAuthenticated(last'.caller)
            /\ last'.caller \notin Staff) =>
               /\ last'.status = 403
               /\ orders' = orders ]_vars

\* the business user of a completed order asked for its deletion and was
\* refused
C21_Witness ==
    /\ last.op = "DELETE order"
    /\ last.status = 403
    /\ last.target \in DOMAIN orders
    /\ last.caller = orders[last.target].business_user
    /\ orders[last.target].status = "completed"

(***************************************************************************)
(* Properties of the review API                                            *)
(***************************************************************************)
SamePair(a, b) == a.business_user = b.business_user /\ a.reviewer = b.reviewer

\* C22: in every reachable state, also when creations of the same reviewer
\* for the same business user overlap, at most one Review exists per
\* (business_user, reviewer) pair.
C22_OneReviewPerPair ==
    \A r1 \in DOMAIN reviews, r2 \in DOMAIN reviews :
        SamePair(reviews[r1], reviews[r2]) => r1 = r2

\* a creation passed is_valid() and its insert was refused by the unique
\* constraint, because the pair had got its review in between
C22_Witness ==
    /\ last.op = "POST reviews"
    /\ last.error = Err("integrity_error")
    /\ \E r \in DOMAIN reviews :
          /\ reviews[r].business_user = last.payload.business_user
          /\ reviews[r].reviewer = last.caller

\* the step answers a request (a creation that only passed is_valid() has
\* no answer yet)
Answers == Len(inflight') <= Len(inflight)

\* C23: a review creation by a customer for a business user they have
\* reviewed already is answered with the validation error 'already
\* reviewed' and leaves the reviews unchanged, also when the request passed
\* the existence check before the other review was inserted.
C23_DuplicateIsValidationError ==
    [][ (/\ last'.op = "POST reviews"
         /\ Answers
         /\ IsCustomerProfile(last'.caller)
         /\ \E r \in DOMAIN reviews :
               /\ reviews[r].business_user = last'.payload.business_user
               /\ reviews[r].reviewer = last'.caller) =>
            /\ last'.status = 400
            /\ last'.error = Err("already_reviewed")
            /\ reviews' = reviews ]_vars

\* C24: a review is created only by a caller with a customer profile, for a
\* target with a business profile that is not the caller; every other
\* creation is rejected and adds nothing.  In every state the reviewer of a
\* review differs from its business user, and the business user has a
\* business profile.
C24_ReviewParties ==
    [][ /\ (DOMAIN reviews') \ (DOMAIN reviews) # {} =>
               /\ last'.op = "POST reviews"
               /\ last'.status = 201
               /\ IsCustomerProfile(last'.caller)
               /\ IsBusinessProfile(last'.payload.business_user)
               /\ last'.payload.business_user # last'.caller
        /\ (/\ last'.op = "POST reviews"
            /\ \/ ~IsCustomerProfile(last'.caller)
               \/ ~IsBusinessProfile(last'.payload.business_user)
               \/ last'.payload.business_user = last'.caller) =>
               /\ last'.status \in {400, 401, 403}
               /\ reviews' = reviews
        /\ \A r \in DOMAIN reviews' :
               /\ reviews'[r].reviewer # reviews'[r].business_user
               /\ IsBusinessProfile(reviews'[r].business_user) ]_vars

\* a customer who has a review was refused a review of an account that has
\* no business profile
C24_Witness ==
    /\ last.op = "POST reviews"
    /\ last.error = Err("not_a_business_profile")
    /\ IsCustomerProfile(last.caller)
    /\ ~IsBusinessProfile(last.payload.business_user)
    /\ \E r \in DOMAIN reviews : reviews[r].reviewer = last.caller

ReviewWrites == {"PUT review", "PATCH review", "DELETE review"}

C26_UpdateFrame ==
    [][ /\ (/\ last'.op \in {"PUT review", "PATCH review"}
            /\ last'.target \in DOMAIN reviews
            /\ last'.caller = reviews[last'.target].reviewer) =>
               LET data == last'.payload
                   t    == last'.target
               IN  /\ (\/ (DOMAIN data) \ {"rating", "description"} # {}
                       \/ (DOMAIN data) \cap {"rating", "description"} = {}) =>
                          /\ last'.status = 400
                          /\ reviews' = reviews
                   /\ (DOMAIN data = {"rating"} /\ data.rating \in 1..5) =>
                          /\ last'.status = 200
                          /\ reviews' = [reviews EXCEPT ![t].rating = data.rating]
        /\ \A r \in (DOMAIN reviews) \cap (DOMAIN reviews') :
               SamePair(reviews'[r], reviews[r]) ]_vars

\* a PATCH with a rating alone was accepted: the review has the new rating
\* and the description it was created with
C26_Witness ==
    /\ last.op = "PATCH review"
    /\ last.status = 200
    /\ DOMAIN last.payload = {"rating"}
    /\ reviews[last.target].rating = last.payload.rating
    /\ reviews[last.target].description = "d1"

(***************************************************************************)
(* Properties of accounts and order parties                                *)
(***************************************************************************)
\* C27: every user but the administrator has a profile (the one-to-one
\* field allows no second one) in every state; a step adds a user exactly
\* when it adds the profile of that user, also when the registration is
\* answered 500; the user_type of a profile never changes.
C27_UserAndProfileTogether ==
    [][ /\ \A u \in (DOMAIN users') \ Staff : u \in DOMAIN profiles'
        /\ DOMAIN profiles' \subseteq DOMAIN users'
        /\ DOMAIN profile_fields' = DOMAIN profiles'
        /\ (DOMAIN users') \ (DOMAIN users) = (DOMAIN profiles') \ (DOMAIN profiles)
        /\ \A u \in DOMAIN profiles : u \in DOMAIN profiles' /\ profiles'[u] = profiles[u] ]_vars

\* after one account was registered, a registration failed while it
\* created the profile: it was answered 500 and no user has its user name
C27_Witness ==
    /\ last.op = "POST registration"
    /\ last.status = 500
    /\ ~\E u \in DOMAIN users : users[u].username = last.payload.username
    /\ \E u \in DOMAIN users : u \notin Users /\ u \in DOMAIN profiles

\* C28: a PATCH or PUT for the profile of a user, sent by an anonymous
\* caller or by another user, is answered 403 and changes neither the
\* profile nor the user.
C28_OnlyOwnerUpdatesProfile ==
    [][ (/\ last'.op \in {"PATCH profile", "PUT profile"}
         /\ last'.target \in DOMAIN profiles
         /\ last'.caller # last'.target) =>
            /\ last'.status = 403
            /\ users' = users
            /\ profiles' = profiles
            /\ profile_fields' = profile_fields ]_vars

\* C29: in every reachable state, also when registrations and profile
\* updates with the same address overlap, no two users have the same email
\* address.
C29_EmailsUnique ==
    \A u1 \in DOMAIN users, u2 \in DOMAIN users :
        users[u1].email = users[u2].email => u1 = u2

\* C30: in every reachable state the customer and the business user of an
\* order are different users, the customer has a customer profile and the
\* business user a business profile.
C30_OrderParties ==
    \A o \in DOMAIN orders :
        /\ orders[o].customer_user # orders[o].business_user
        /\ IsCustomerProfile(orders[o].customer_user)
        /\ IsBusinessProfile(orders[o].business_user)

=============================================================================
